---- MODULE Spec2Model ----
(***************************************************************************)
(* rtnetlink: request/response correlation over one netlink socket, and   *)
(* the typed message builders.                                            *)
(*                                                                        *)
(* Three specifications share this module:                                *)
(*   Spec      the connection: handles, the connection actor, the kernel  *)
(*             side of the socket, and the execute() loops of the request *)
(*             objects;                                                   *)
(*   SpecAddr  the IPv4 address builders (broadcast derivation);          *)
(*   SpecRoute the RouteMessageBuilder<IpAddr> setters.                   *)
(* The connection actor itself lives in the netlink_proto dependency and  *)
(* is modelled from the design document; the execute() loops, the flags,  *)
(* and the builders are modelled from the sources.                        *)
(***************************************************************************)
EXTENDS Integers, Sequences, FiniteSets, TLC

\* ------------------------------------------------------------------ bounds
\* Number of requests the callers issue over the life of the connection.
MaxReq == 3
\* Largest number of payload messages the kernel answers a dump with.
MaxPayload == 1
\* Width of the modelled sequence counter (32 bits in the program).
SeqBits == 1
\* Number of unsolicited (multicast) messages the kernel may emit.
MaxNotif == 1
\* Number of datagrams the socket's receive buffer holds.
SockCap == 1

SeqMod == 2 ^ SeqBits
Seqs == 0 .. (SeqMod - 1)
RequestIds == 1 .. MaxReq
\* Kernel error code carried by an Error reply (EEXIST).
ErrCodes == {17}

\* ------------------------------------------------------------- variables
VARIABLES
    conn,         \* "up" | "dead": state of the connection actor
    sequence_id,  \* next sequence number the actor hands out
    pending,      \* registrations: set of <<sequence number, request id>>
    chan,         \* per request: messages in its reply channel
    txAlive,      \* per request: the sender half of its channel exists
    rxAlive,      \* per request: the receiver half of its channel exists
    call,         \* per request: the caller's view (kind, flags, position)
    wrote,        \* number of messages written to the socket so far
    plan,         \* per request: what the kernel emitted for it so far
    sockIn,       \* datagrams the kernel emitted, not yet dispatched
    broadcast,    \* messages forwarded to the shared unsolicited channel
    notifs,       \* number of unsolicited messages emitted so far
    ab,           \* address builder state (SpecAddr)
    rb,           \* route builder state (SpecRoute)
    gf,           \* address dump and its client-side filter (SpecAddrGet)
    ns,           \* network namespaces: files, mounts, add and del (SpecNs)
    ng,           \* a thread and its NetnsGuards (SpecGuard)
    fl,           \* an Add request and the flags it is sent with (SpecFlags)
    lb,           \* link message builder state (SpecLink)
    mc,           \* multicast connection set-up (SpecMulticast)
    tf,           \* traffic filter request state (SpecTcFilter)
    nh,           \* route nexthop builder state (SpecNextHop)
    br,           \* bridge link builder state (SpecBridge)
    rg            \* route get request state (SpecRouteGet)

connVars == <<conn, sequence_id, pending, chan, txAlive, rxAlive, call,
              wrote, plan, sockIn, broadcast, notifs>>
lastVars == <<nh, br, rg>>
moreVars == <<gf, ns, ng, fl, lb, mc, tf, lastVars>>
vars == <<conn, sequence_id, pending, chan, txAlive, rxAlive, call,
          wrote, plan, sockIn, broadcast, notifs, ab, rb, moreVars>>

\* ------------------------------------------------------------- helpers
Range(s) == {s[i] : i \in 1 .. Len(s)}

RECURSIVE SeqMap(_, _)
SeqMap(Op(_), s) ==
    IF s = <<>> THEN <<>> ELSE <<Op(Head(s))>> \o SeqMap(Op, Tail(s))

\* ------------------------------------------------------------- flags
NLM_F_REQUEST == "REQUEST"
NLM_F_ACK == "ACK"
NLM_F_DUMP == "DUMP"

\* Flags set by the execute() of the Del/Set requests (the Add requests add
\* CREATE and EXCL or REPLACE, which the correlation does not look at).
AckFlags == {NLM_F_REQUEST, NLM_F_ACK}
\* A plausible slip: the Get request leaves NLM_F_DUMP out.
DumpFlags_NoDump == {NLM_F_REQUEST}
\* Flags set by the execute() of the Get requests.
DumpFlags == {NLM_F_REQUEST, NLM_F_DUMP}

\* ------------------------------------------------------------- results
NoResult == [tag |-> "none", code |-> 0]
OkResult == [tag |-> "Ok", code |-> 0]
\* Error::NetlinkError(err): the kernel's error message, with its code.
NetlinkError(c) == [tag |-> "NetlinkError", code |-> c]
\* The error Handle::request returns when the connection is gone.
TransportFailure == [tag |-> "RequestFailed", code |-> 0]

\* try_nl!(message): an Error payload makes execute() return
\* Err(Error::NetlinkError(err)); any other payload lets the loop go on.
TryNl(m) == IF m.kind = "Error" THEN NetlinkError(m.code) ELSE NoResult

\* try_rtnl!(msg, Kind) inside response.map(..): a payload of the expected
\* kind becomes an Ok item, an Error payload an Err(NetlinkError) item; the
\* stream stops at the Done marker, which is no item of it.
TryRtnl(m) ==
    IF m.kind = "Payload"
    THEN [tag |-> "Ok", rid |-> m.rid, idx |-> m.idx, code |-> 0]
    ELSE IF m.kind = "Error"
    THEN [tag |-> "Err", rid |-> m.rid, idx |-> m.idx, code |-> m.code]
    ELSE [tag |-> "Stop", rid |-> m.rid, idx |-> m.idx, code |-> 0]

\* ------------------------------------------------------------- messages
NoCall == [kind |-> "none", flags |-> {}, st |-> "idle", seq |-> -1,
           got |-> <<>>, result |-> NoResult]

\* The kernel's side of a request: whether it still has replies to give, and
\* what it emitted so far: n payloads and, once it is
\* through, the terminal reply.
NoPlan == [open |-> FALSE, n |-> 0, term |-> "none", code |-> 0]

Payload(r, s, i) ==
    [seq |-> s, kind |-> "Payload", rid |-> r, idx |-> i, code |-> 0]

Terminal(r, s, i, t, c) ==
    [seq |-> s, kind |-> t, rid |-> r, idx |-> i, code |-> c]

\* Ack, Error and the Done marker complete a registration.
IsTerminal(m) == m.kind \in {"Ack", "Error", "Done"}

\* ------------------------------------------------------------- sequence ids
\* The actor's counter: the next number, wrapping at the counter's width.
NextSeq(s) == (s + 1) % SeqMod

\* Registrations whose sequence number is s.
Lookup(p, s) == {e \in p : e[1] = s}

\* The actor holds a registration for request r.
Registered(r) == \E e \in pending : e[2] = r

\* Replies to a request numbered s that are still on their way to the actor.
InSocket(s) ==
    \E i \in 1 .. Len(sockIn) :
        \E m \in Range(sockIn[i]) : m.seq = s /\ m.rid # 0

\* The counter is 32 bits wide in the program and SeqBits wide here. A number
\* comes round again only after 2^32 requests, long after the kernel has
\* answered the request that had it before and the answers were read.
SeqQuiet(s) ==
    /\ \A q \in RequestIds : call[q].seq = s => ~plan[q].open
    /\ ~InSocket(s)

\* ------------------------------------------------------------- the kernel
\* The terminal replies the kernel may give a request with flags f, as
\* <<kind, code>>: a dump ends with Done, or with an Error at some point; a
\* request with ACK gets an Ack or an Error.
KernelTerminals(f) ==
    {<<(IF NLM_F_DUMP \in f THEN "Done" ELSE "Ack"), 0>>}
        \cup {<<"Error", c>> : c \in ErrCodes}

\* The number of payload messages a request with flags f may still get
\* after n of them.
PayloadsLeft(f, n) == IF NLM_F_DUMP \in f THEN MaxPayload - n ELSE 0

\* ------------------------------------------------------------- Init
ConnInit ==
    /\ conn = "up"
    /\ sequence_id = 0
    /\ pending = {}
    /\ chan = [c \in RequestIds |-> <<>>]
    /\ txAlive = [c \in RequestIds |-> FALSE]
    /\ rxAlive = [c \in RequestIds |-> FALSE]
    /\ call = [c \in RequestIds |-> NoCall]
    /\ wrote = 0
    /\ plan = [r \in RequestIds |-> NoPlan]
    /\ sockIn = <<>>
    /\ broadcast = {}
    /\ notifs = 0

NoBuilder == [st |-> "unused"]

\* The parts of the library a specification does not exercise stay unused.
LastInit == nh = NoBuilder /\ br = NoBuilder /\ rg = NoBuilder

MoreInit ==
    /\ gf = NoBuilder /\ ns = NoBuilder /\ ng = NoBuilder
    /\ fl = NoBuilder /\ lb = NoBuilder /\ mc = NoBuilder /\ tf = NoBuilder
    /\ LastInit

Init == ConnInit /\ ab = NoBuilder /\ rb = NoBuilder /\ MoreInit

\* ------------------------------------------------------------- callers
FlagsOf(k) == IF k = "ack" THEN AckFlags ELSE DumpFlags

\* Handle::request, as called first thing by every execute(): the message
\* and a fresh reply channel go to the actor, which gives the message the
\* next sequence number, registers the channel under it and writes the
\* message to the socket, where the kernel takes it in. When the connection
\* is gone the call fails at once.
Request(r, k) ==
    /\ call[r].st = "idle"
    /\ r > 1 => call[r - 1].st # "idle"
    /\ IF conn = "up"
       THEN /\ SeqQuiet(sequence_id)
            /\ pending' = pending \cup {<<sequence_id, r>>}
            /\ sequence_id' = NextSeq(sequence_id)
            /\ txAlive' = [txAlive EXCEPT ![r] = TRUE]
            /\ rxAlive' = [rxAlive EXCEPT ![r] = TRUE]
            /\ call' = [call EXCEPT ![r] = [NoCall EXCEPT !.kind = k,
                            !.flags = FlagsOf(k), !.st = "waiting",
                            !.seq = sequence_id]]
            /\ plan' = [plan EXCEPT ![r].open = TRUE]
            /\ wrote' = wrote + 1
       ELSE /\ call' = [call EXCEPT ![r] = [NoCall EXCEPT !.kind = k,
                            !.flags = FlagsOf(k), !.st = "done",
                            !.result = TransportFailure]]
            /\ UNCHANGED <<pending, sequence_id, txAlive, rxAlive, plan,
                           wrote>>
    /\ UNCHANGED <<conn, chan, sockIn, broadcast, notifs, ab, rb,
                   moreVars>>

\* A plausible slip: the loop drains the stream without looking for an Error.
ExecuteNext_IgnoreError(c) ==
    /\ call[c].st = "waiting"
    /\ call[c].kind = "ack"
    /\ IF chan[c] # <<>>
       THEN /\ chan' = [chan EXCEPT ![c] = Tail(@)]
            /\ call' = [call EXCEPT ![c].got = Append(@, Head(chan[c]))]
            /\ UNCHANGED rxAlive
       ELSE /\ ~txAlive[c]
            /\ call' = [call EXCEPT ![c].st = "done", ![c].result = OkResult]
            /\ rxAlive' = [rxAlive EXCEPT ![c] = FALSE]
            /\ UNCHANGED chan
    /\ UNCHANGED <<conn, sequence_id, pending, txAlive, plan, sockIn,
                   broadcast, notifs, wrote, ab, rb,
                   moreVars>>

\* One turn of `while let Some(message) = response.next().await
\* { try_nl!(message); } Ok(())` in the execute() of an Add/Del/Set request.
ExecuteNext(c) ==
    /\ call[c].st = "waiting"
    /\ call[c].kind = "ack"
    /\ IF chan[c] # <<>>
       THEN LET m == Head(chan[c]) IN
            /\ chan' = [chan EXCEPT ![c] = Tail(@)]
            /\ IF TryNl(m).tag = "NetlinkError"
               THEN /\ call' = [call EXCEPT ![c].got = Append(@, m),
                                    ![c].st = "done", ![c].result = TryNl(m)]
                    /\ rxAlive' = [rxAlive EXCEPT ![c] = FALSE]
               ELSE /\ call' = [call EXCEPT ![c].got = Append(@, m)]
                    /\ UNCHANGED rxAlive
       ELSE /\ ~txAlive[c]
            /\ call' = [call EXCEPT ![c].st = "done", ![c].result = OkResult]
            /\ rxAlive' = [rxAlive EXCEPT ![c] = FALSE]
            /\ UNCHANGED chan
    /\ UNCHANGED <<conn, sequence_id, pending, txAlive, plan, sockIn,
                   broadcast, notifs, wrote, ab, rb,
                   moreVars>>

\* A plausible slip: the stream filters Error replies out instead of
\* yielding them.
StreamNext_DropsErrors(c) ==
    /\ call[c].st = "waiting"
    /\ call[c].kind = "dump"
    /\ IF chan[c] # <<>>
       THEN /\ chan' = [chan EXCEPT ![c] = Tail(@)]
            /\ call' = IF Head(chan[c]).kind = "Error"
                       THEN call
                       ELSE [call EXCEPT ![c].got = Append(@, Head(chan[c]))]
            /\ UNCHANGED rxAlive
       ELSE /\ ~txAlive[c]
            /\ call' = [call EXCEPT ![c].st = "ended"]
            /\ rxAlive' = [rxAlive EXCEPT ![c] = FALSE]
            /\ UNCHANGED chan
    /\ UNCHANGED <<conn, sequence_id, pending, txAlive, plan, sockIn,
                   broadcast, notifs, wrote, ab, rb,
                   moreVars>>

\* One poll of the stream a Get request's execute() returns.
StreamNext(c) ==
    /\ call[c].st = "waiting"
    /\ call[c].kind = "dump"
    /\ IF chan[c] # <<>>
       THEN /\ chan' = [chan EXCEPT ![c] = Tail(@)]
            /\ call' = [call EXCEPT ![c].got = Append(@, Head(chan[c]))]
            /\ UNCHANGED rxAlive
       ELSE /\ ~txAlive[c]
            /\ call' = [call EXCEPT ![c].st = "ended"]
            /\ rxAlive' = [rxAlive EXCEPT ![c] = FALSE]
            /\ UNCHANGED chan
    /\ UNCHANGED <<conn, sequence_id, pending, txAlive, plan, sockIn,
                   broadcast, notifs, wrote, ab, rb,
                   moreVars>>

\* A plausible slip: dropping the stream writes a cancellation to the socket.
DropStream_Cancel(c) ==
    /\ call[c].st = "waiting"
    /\ call' = [call EXCEPT ![c].st = "dropped", ![c].got = <<>>]
    /\ rxAlive' = [rxAlive EXCEPT ![c] = FALSE]
    /\ chan' = [chan EXCEPT ![c] = <<>>]
    /\ wrote' = wrote + 1
    /\ UNCHANGED <<conn, sequence_id, pending, txAlive, plan, sockIn,
                   broadcast, notifs, ab, rb,
                   moreVars>>

\* The caller drops the reply stream (or the execute() future) early; what
\* the stream yielded before goes with it.
DropStream(c) ==
    /\ call[c].st = "waiting"
    /\ call' = [call EXCEPT ![c].st = "dropped", ![c].got = <<>>]
    /\ rxAlive' = [rxAlive EXCEPT ![c] = FALSE]
    /\ chan' = [chan EXCEPT ![c] = <<>>]
    /\ UNCHANGED <<conn, sequence_id, pending, txAlive, plan, sockIn,
                   broadcast, notifs, wrote, ab, rb,
                   moreVars>>

\* ------------------------------------------------------------- the actor
\* A plausible slip: a registration outlives its terminal reply.
Completes_OnDropOnly(m, alive) == ~alive

\* A registration ends with a terminal reply, or when the actor finds the
\* receiver of its channel gone.
Completes(m, alive) == IsTerminal(m) \/ ~alive

\* A plausible slip: the channel hands out the newest message first.
Deliver_Front(q, m) == <<m>> \o q

\* The actor sends message m into a reply channel holding q.
Deliver(q, m) == Append(q, m)

\* A plausible slip: the lookup never finds a registration.
RouteOf_None(p, m) == {}

\* Where the actor routes message m given the registrations p: the requests
\* registered under m's sequence number (none: the broadcast channel).
RouteOf(p, m) == {e[2] : e \in Lookup(p, m.seq)}

\* The socket's content once the first message of its first datagram is
\* taken off.
AfterFirst(q) ==
    IF Len(Head(q)) = 1 THEN Tail(q) ELSE <<Tail(Head(q))>> \o Tail(q)

\* The actor reads the socket and dispatches the next message of the datagram
\* at its head: to the channel registered under its sequence number, else to
\* the broadcast channel. A terminal reply, or a receiver that is gone, ends
\* the registration.
ActorDispatch ==
    /\ conn = "up"
    /\ sockIn # <<>>
    /\ LET m == Head(Head(sockIn)) IN
       IF RouteOf(pending, m) = {}
       THEN /\ broadcast' = broadcast \cup {m}
            /\ UNCHANGED <<pending, chan, txAlive>>
       ELSE \E c \in RouteOf(pending, m) :
            /\ chan' = IF rxAlive[c]
                       THEN [chan EXCEPT ![c] = Deliver(@, m)]
                       ELSE chan
            /\ IF Completes(m, rxAlive[c])
               THEN /\ pending' = pending \ {<<m.seq, c>>}
                    /\ txAlive' = [txAlive EXCEPT ![c] = FALSE]
               ELSE UNCHANGED <<pending, txAlive>>
            /\ UNCHANGED broadcast
    /\ sockIn' = AfterFirst(sockIn)
    /\ UNCHANGED <<conn, sequence_id, rxAlive, call, plan, notifs, wrote, ab, rb,
                   moreVars>>

\* A transport-level I/O error ends the actor: every sender it holds is
\* dropped with it.
TransportError ==
    /\ conn = "up"
    /\ conn' = "dead"
    /\ pending' = {}
    /\ txAlive' = [c \in RequestIds |-> FALSE]
    /\ plan' = [r \in RequestIds |-> [plan[r] EXCEPT !.open = FALSE]]
    /\ sockIn' = <<>>
    /\ UNCHANGED <<sequence_id, chan, rxAlive, call, broadcast, notifs,
                   wrote, ab, rb,
                   moreVars>>

\* ------------------------------------------------------------- kernel output
\* The kernel emits one datagram for request r: its next k payload messages
\* and, when fin, its terminal reply after them.
KernelEmit(r, k, fin) ==
    /\ conn = "up"
    /\ plan[r].open
    /\ Len(sockIn) < SockCap
    /\ k <= PayloadsLeft(call[r].flags, plan[r].n)
    /\ k >= 1 \/ fin
    /\ \E t \in KernelTerminals(call[r].flags) :
        LET s == call[r].seq
            ps == [j \in 1 .. k |-> Payload(r, s, plan[r].n + j)]
            tm == Terminal(r, s, plan[r].n + k + 1, t[1], t[2])
        IN IF fin
           THEN /\ sockIn' = Append(sockIn, Append(ps, tm))
                /\ plan' = [plan EXCEPT ![r] = [open |-> FALSE,
                               n |-> plan[r].n + k, term |-> t[1],
                               code |-> t[2]]]
           ELSE /\ sockIn' = Append(sockIn, ps)
                /\ plan' = [plan EXCEPT ![r].n = @ + k]
    /\ UNCHANGED <<conn, sequence_id, pending, chan, txAlive, rxAlive, call,
                   broadcast, notifs, wrote, ab, rb,
                   moreVars>>

\* The kernel emits an unsolicited message (a multicast notification); its
\* sequence number is whatever the event that caused it carried.
KernelNotify(s) ==
    /\ conn = "up"
    /\ notifs < MaxNotif
    /\ Len(sockIn) < SockCap
    /\ sockIn' = Append(sockIn,
                   <<[seq |-> s, kind |-> "Payload", rid |-> 0,
                      idx |-> notifs + 1, code |-> 0]>>)
    /\ notifs' = notifs + 1
    /\ UNCHANGED <<conn, sequence_id, pending, chan, txAlive, rxAlive, call,
                   plan, broadcast, wrote, ab, rb,
                   moreVars>>

\* ------------------------------------------------------------- Spec
Next ==
    \/ \E r \in RequestIds, k \in {"ack", "dump"} : Request(r, k)
    \/ \E c \in RequestIds : ExecuteNext(c)
    \/ \E c \in RequestIds : StreamNext(c)
    \/ \E c \in RequestIds : DropStream(c)
    \/ ActorDispatch
    \/ TransportError
    \/ \E r \in RequestIds, k \in 0 .. MaxPayload, fin \in BOOLEAN :
           KernelEmit(r, k, fin)
    \/ \E s \in Seqs : KernelNotify(s)

Spec == Init /\ [][Next]_vars


\* ------------------------------------------------------------- vocabulary
\* Everything the actor sent into the channel of request r, read or not.
Delivered(r) == call[r].got \o chan[r]

Final(m) == m.kind \in {"Ack", "Error", "Done"}

RECURSIVE OwnOf(_, _)
\* The messages of q that the kernel emitted in answer to request r.
OwnOf(q, r) ==
    IF q = <<>> THEN <<>>
    ELSE IF Head(q).rid = r THEN <<Head(q)>> \o OwnOf(Tail(q), r)
    ELSE OwnOf(Tail(q), r)

RECURSIVE Finals(_)
Finals(q) ==
    IF q = <<>> THEN <<>>
    ELSE IF Final(Head(q)) THEN <<Head(q)>> \o Finals(Tail(q))
    ELSE Finals(Tail(q))

\* A reply to request r is still in the socket.
InSocketOf(r) ==
    \E i \in 1 .. Len(sockIn) : \E m \in Range(sockIn[i]) : m.rid = r

\* The kernel has given request r all its replies and the actor has
\* dispatched them all.
Answered(r) == ~plan[r].open /\ plan[r].term # "none" /\ ~InSocketOf(r)

\* The replies the kernel emitted for request r, in the order it emitted them.
Emitted(r) ==
    [i \in 1 .. (plan[r].n + (IF plan[r].term = "none" THEN 0 ELSE 1)) |->
        IF i <= plan[r].n
        THEN Payload(r, call[r].seq, i)
        ELSE Terminal(r, call[r].seq, i, plan[r].term, plan[r].code)]

\* ------------------------------------------------------------- C1
\* C1: absent transport failure, the reply stream of an Add/Del/Set request
\* (ACK without DUMP) yields exactly one terminal reply, an Ack or an Error;
\* execute() returns Err with the kernel's error iff it is an Error and
\* Ok(()) iff it is an Ack.
C1_AckErrorExclusive ==
    \A r \in RequestIds :
        (/\ call[r].st = "done"
         /\ NLM_F_ACK \in call[r].flags /\ NLM_F_DUMP \notin call[r].flags
         /\ conn = "up") =>
            LET fin == Finals(call[r].got) IN
            /\ Len(fin) = 1
            /\ fin[1].kind \in {"Ack", "Error"}
            /\ fin[1] = Emitted(r)[1]
            /\ (call[r].result = OkResult) <=> (fin[1].kind = "Ack")
            /\ (call[r].result = NetlinkError(plan[r].code))
                   <=> (fin[1].kind = "Error")
            /\ chan[r] = <<>> /\ ~txAlive[r]

C1_Witness ==
    /\ conn = "up"
    /\ \E r, q \in RequestIds :
        /\ call[r].kind = "ack" /\ call[r].st = "done"
        /\ call[r].result = OkResult
        /\ call[q].kind = "ack" /\ call[q].st = "done"
        /\ call[q].result.tag = "NetlinkError"

C3_SequenceUnique ==
    /\ \A e1, e2 \in pending : e1[1] = e2[1] => e1 = e2
    /\ \A r \in RequestIds :
           \A m \in Range(Delivered(r)) : m.rid \in {0, r}

\* Request r got the number of the completed request q, whose caller has not
\* read its stream to the end, and has replies in its own stream, while
\* another request is registered as well.
C3_Witness ==
    \E q, r \in RequestIds :
        /\ q < r /\ call[q].seq = call[r].seq
        /\ call[q].st = "waiting" /\ ~Registered(q)
        /\ Registered(r) /\ Delivered(r) # <<>>
        /\ Cardinality(pending) >= 2

\* ------------------------------------------------------------- C4
\* C4 (as claimed): when the connection dies while an Add/Del/Set request is
\* pending, execute() does not report success: it returns Ok(()) only when
\* an Ack was delivered.
C4_NoSilentSuccess ==
    \A r \in RequestIds :
        (call[r].kind = "ack" /\ call[r].st = "done"
            /\ call[r].result = OkResult) =>
            \E m \in Range(call[r].got) : m.kind = "Ack"

\* ------------------------------------------------------------- C5
\* C5: when an Error reply reaches a Dump/Get request after k payload
\* messages, the stream yields those k messages as Ok items in arrival
\* order, then one Err item with the kernel's error, and nothing after it.
C5_DumpErrorAborts ==
    \A r \in RequestIds :
        call[r].kind = "dump" =>
            LET g == call[r].got IN
            /\ \A i \in 1 .. Len(g) :
                TryRtnl(g[i]).tag = "Err" =>
                    /\ i = Len(g) /\ chan[r] = <<>> /\ ~txAlive[r]
                    /\ \A j \in 1 .. (i - 1) : TryRtnl(g[j]).tag = "Ok"
                    /\ TryRtnl(g[i]).code = plan[r].code
                    /\ TryRtnl(g[i]).code \in ErrCodes
                    /\ OwnOf(g, r) = Emitted(r)
            /\ (call[r].st = "ended" /\ conn = "up"
                    /\ plan[r].term = "Error") =>
                   /\ g # <<>>
                   /\ TryRtnl(g[Len(g)]).tag = "Err"

C5_Witness ==
    \E r \in RequestIds :
        /\ call[r].kind = "dump" /\ call[r].st = "ended" /\ conn = "up"
        /\ Len(call[r].got) = MaxPayload + 1
        /\ TryRtnl(call[r].got[1]).tag = "Ok"
        /\ TryRtnl(call[r].got[MaxPayload + 1]).tag = "Err"

\* ------------------------------------------------------------- C6
\* C6: every step in which the actor dispatches a message puts it on the
\* broadcast channel, and into no reply channel, when its sequence number
\* matches no registration, and into the one channel registered under its
\* number, and not on the broadcast channel, when it matches one; the actor
\* stays up either way.
C6_DispatchStep ==
    (conn = "up" /\ conn' = "up" /\ sockIn # <<>>
        /\ sockIn' = AfterFirst(sockIn)) =>
        LET m == Head(Head(sockIn)) IN
        IF \A e \in pending : e[1] # m.seq
        THEN broadcast' = broadcast \cup {m} /\ chan' = chan
        ELSE /\ broadcast' = broadcast
             /\ \E r \in RequestIds :
                 /\ <<m.seq, r>> \in pending
                 /\ \A q \in RequestIds \ {r} : chan'[q] = chan[q]
                 /\ \/ chan'[r] = Append(chan[r], m)
                    \/ ~rxAlive[r] /\ chan'[r] = chan[r]

C6_Demultiplex == [][C6_DispatchStep]_vars

\* An unsolicited message is on the broadcast channel while requests are
\* registered.
C6_Witness ==
    /\ \E m \in broadcast : m.rid = 0
    /\ pending # {}
    /\ \E r \in RequestIds : Delivered(r) # <<>>

\* ------------------------------------------------------------- C7
\* C7: the replies to one request reach its caller's stream in the order
\* the kernel emitted them: what was delivered is a prefix of what was
\* emitted, whatever else was dispatched in between.
C7_OrderPreserved ==
    \A r \in RequestIds :
        call[r].st # "dropped" =>
            LET own == OwnOf(Delivered(r), r) IN
            /\ Len(own) <= Len(Emitted(r))
            /\ own = SubSeq(Emitted(r), 1, Len(own))

\* Both replies of a dump were delivered, with an unsolicited message in the
\* same stream, while another request is registered.
C7_Witness ==
    \E r, q \in RequestIds :
        /\ r # q /\ Registered(q)
        /\ Len(OwnOf(Delivered(r), r)) >= 2
        /\ \E m \in Range(Delivered(r)) : m.rid = 0

Ipv4PrefixMax == 32
Ipv6PrefixMax == 128
\* Width of the u32 the broadcast address is computed in.
U32Bits == 32

V4(a, b, c, d) == [v |-> 4, o |-> <<a, b, c, d>>]
V6(hi, lo) == [v |-> 6, o |-> <<hi, lo>>]
None == [v |-> 0, o |-> <<>>]

\* IpAddr::is_multicast: 224.0.0.0/4 and ff00::/8.
IsMulticast(a) ==
    IF a.v = 4 THEN a.o[1] \div 16 = 14 ELSE a.o[1] \div 256 = 255

\* u32::from(Ipv4Addr): the octets in network order, most significant bit
\* first.
U32FromIpv4(o) ==
    [i \in 1 .. U32Bits |->
        (o[((i - 1) \div 8) + 1] \div (2 ^ (7 - ((i - 1) % 8)))) % 2]

\* Ipv4Addr::from(u32).
Ipv4FromU32(b) ==
    [k \in 1 .. 4 |->
        128 * b[8 * k - 7] + 64 * b[8 * k - 6] + 32 * b[8 * k - 5]
        + 16 * b[8 * k - 4] + 8 * b[8 * k - 3] + 4 * b[8 * k - 2]
        + 2 * b[8 * k - 1] + b[8 * k]]

\* 0xffff_ffff_u32
AllOnes == [i \in 1 .. U32Bits |-> 1]

\* x >> n on u32, for n < 32.
Shr(x, n) == [i \in 1 .. U32Bits |-> IF i <= n THEN 0 ELSE x[i - n]]

\* x | y on u32.
BitOr(x, y) == [i \in 1 .. U32Bits |-> IF x[i] = 1 \/ y[i] = 1 THEN 1 ELSE 0]

\* A plausible slip: the network mask instead of the host mask.
BuilderBroadcast_NetMask(address, prefix_len) ==
    Ipv4FromU32(BitOr(
        [i \in 1 .. U32Bits |-> IF i <= prefix_len THEN 1 ELSE 0],
        U32FromIpv4(address)))

\* The IFA_BROADCAST value AddressMessageBuilder<Ipv4Addr>::address derives.
BuilderBroadcast(address, prefix_len) ==
    IF prefix_len = 32
    THEN address
    ELSE Ipv4FromU32(BitOr(Shr(AllOnes, prefix_len), U32FromIpv4(address)))

\* The IFA_BROADCAST value AddressAddRequest::new derives.
AddRequestBroadcast(a, prefix_len) ==
    IF prefix_len = 32
    THEN a
    ELSE Ipv4FromU32(BitOr(Shr(AllOnes, prefix_len), U32FromIpv4(a)))

Attr(n, x) == [name |-> n, value |-> x]

\* AddressMessage::default().
AddressMessageDefault ==
    [family |-> "Unspec", prefix_len |-> 0, index |-> 0, attributes |-> <<>>]

\* Addresses and peers the callers pass in.
AddressInputs ==
    {V4(192, 168, 1, 10), V4(10, 0, 0, 1), V4(172, 16, 254, 129),
     V4(0, 0, 0, 0), V4(255, 255, 255, 255), V4(224, 0, 0, 251),
     V4(239, 255, 255, 250), V6(65152, 1), V6(65282, 1)}
PeerInputs == {None, V4(10, 0, 0, 2)}
IndexInputs == {2}

InitAddr ==
    /\ ConnInit
    /\ rb = NoBuilder
    /\ MoreInit
    /\ ab \in [st : {"input"}, via : {"none"}, address : AddressInputs,
               prefix_len : 0 .. Ipv4PrefixMax, peer : PeerInputs,
               index : IndexInputs, message : {AddressMessageDefault}]

\* AddressMessageBuilder::<Ipv4Addr>::new().index(i).address(a, p).build()
BuilderAddressV4 ==
    /\ ab.st = "input" /\ ab.address.v = 4
    /\ LET address == ab.address
           prefix_len == ab.prefix_len
           m0 == [AddressMessageDefault EXCEPT !.family = "Inet",
                      !.index = ab.index, !.prefix_len = prefix_len]
           attrs == IF ~IsMulticast(address)
                    THEN <<Attr("Address", address), Attr("Local", address),
                           Attr("Broadcast",
                                [v |-> 4,
                                 o |-> BuilderBroadcast(address.o,
                                                        prefix_len)])>>
                    ELSE <<>>
       IN ab' = [ab EXCEPT !.st = "built", !.via = "builder",
                     !.message = [m0 EXCEPT !.attributes = attrs]]
    /\ UNCHANGED <<connVars, rb, moreVars>>

\* AddressMessageBuilder::<Ipv6Addr>::new().index(i).address(a, p).build()
BuilderAddressV6 ==
    /\ ab.st = "input" /\ ab.address.v = 6
    /\ LET address == ab.address
           m0 == [AddressMessageDefault EXCEPT !.family = "Inet6",
                      !.index = ab.index, !.prefix_len = ab.prefix_len]
           attrs == IF IsMulticast(address)
                    THEN <<Attr("Multicast", address)>>
                    ELSE <<Attr("Address", address), Attr("Local", address)>>
       IN ab' = [ab EXCEPT !.st = "built", !.via = "builder",
                     !.message = [m0 EXCEPT !.attributes = attrs]]
    /\ UNCHANGED <<connVars, rb, moreVars>>

\* AddressAddRequest::new(handle, index, address, prefix_len, peer_address)
AddressAddRequestNew ==
    /\ ab.st = "input"
    /\ LET address == ab.address
           prefix_len == ab.prefix_len
           m0 == [AddressMessageDefault EXCEPT !.prefix_len = prefix_len,
                      !.index = ab.index,
                      !.family = IF address.v = 4 THEN "Inet" ELSE "Inet6"]
           named == IF ab.peer # None
                    THEN <<Attr("Address", ab.peer), Attr("Local", address)>>
                    ELSE <<Attr("Address", address), Attr("Local", address)>>
           brd == IF address.v = 4
                  THEN <<Attr("Broadcast",
                              [v |-> 4,
                               o |-> AddRequestBroadcast(address.o,
                                                         prefix_len)])>>
                  ELSE <<>>
           attrs == IF IsMulticast(address)
                    THEN IF address.v = 6
                         THEN <<Attr("Multicast", address)>>
                         ELSE <<>>
                    ELSE named \o brd
       IN ab' = [ab EXCEPT !.st = "built", !.via = "request",
                     !.message = [m0 EXCEPT !.attributes = attrs]]
    /\ UNCHANGED <<connVars, rb, moreVars>>

NextAddr ==
    \/ BuilderAddressV4
    \/ BuilderAddressV6
    \/ AddressAddRequestNew

SpecAddr == InitAddr /\ [][NextAddr]_vars

\* ------------------------------------------------------------- C9
RECURSIVE AttrsNamed(_, _)
\* The values of the attributes of q that are called n, in order.
AttrsNamed(q, n) ==
    IF q = <<>> THEN <<>>
    ELSE IF Head(q).name = n THEN <<Head(q).value>> \o AttrsNamed(Tail(q), n)
    ELSE AttrsNamed(Tail(q), n)

\* Octet k of a | (0xFFFFFFFF >> p), by arithmetic on the octet: its h low
\* bits are host bits and are all set.
ClaimedOctet(o, p, k) ==
    LET h == IF 8 * k - p <= 0 THEN 0 ELSE IF 8 * k - p >= 8 THEN 8
             ELSE 8 * k - p
    IN o - (o % (2 ^ h)) + (2 ^ h) - 1

ClaimedBroadcast(a, p) ==
    IF p = 32 THEN a ELSE [k \in 1 .. 4 |-> ClaimedOctet(a[k], p, k)]

\* C9: for a non-multicast IPv4 address a and a prefix length p <= 32, both
\* AddressMessageBuilder<Ipv4Addr>::address and AddressAddRequest::new emit
\* one Broadcast attribute, equal to a | (0xFFFFFFFF >> p) when p < 32 and
\* to a when p = 32.
C9_BroadcastDerived ==
    (/\ ab # NoBuilder /\ ab.st = "built"
     /\ ab.address.v = 4
     /\ ~(ab.address.o[1] \in 224 .. 239)
     /\ ab.prefix_len <= 32) =>
        /\ AttrsNamed(ab.message.attributes, "Broadcast") =
               <<[v |-> 4, o |-> ClaimedBroadcast(ab.address.o,
                                                  ab.prefix_len)]>>
        /\ ab.prefix_len = 32 =>
               AttrsNamed(ab.message.attributes, "Broadcast") =
                   <<ab.address>>

\* 192.168.1.10/24 built by the builder: broadcast 192.168.1.255.
C9_Witness ==
    /\ ab # NoBuilder /\ ab.st = "built" /\ ab.via = "builder"
    /\ ab.address = V4(192, 168, 1, 10) /\ ab.prefix_len = 24
    /\ AttrsNamed(ab.message.attributes, "Broadcast")
           = <<V4(192, 168, 1, 255)>>


\* =============================================================== SpecRoute
\* RouteMessageBuilder<IpAddr>: each setter takes the builder by value and
\* gives back Ok(builder) or Err(InvalidRouteMessage); after an Err the
\* builder and its message are gone.
\* Number of calls made on one builder.
MaxCalls == 3
\* RouteHeader::RT_TABLE_MAIN
RT_TABLE_MAIN == 254

NoErr == [tag |-> "none"]
NoMessage == [gone |-> TRUE]

\* The values of enum InvalidRouteMessage.
ErrAddressFamily(af) == [tag |-> "AddressFamily", af |-> af]
ErrGateway(addr) == [tag |-> "Gateway", addr |-> addr]
ErrPrefSource(addr) == [tag |-> "PrefSource", addr |-> addr]
ErrSourcePrefix(addr, p) ==
    [tag |-> "SourcePrefix", addr |-> addr, prefix_length |-> p]
ErrDestinationPrefix(addr, p) ==
    [tag |-> "DestinationPrefix", addr |-> addr, prefix_length |-> p]

\* RouteMessageBuilder::new_no_address_family()
RouteMessageNew ==
    [address_family |-> "Unspec", table |-> RT_TABLE_MAIN,
     protocol |-> "Static", scope |-> "Universe", kind |-> "Unicast",
     destination_prefix_length |-> 0, source_prefix_length |-> 0,
     attributes |-> <<>>]

\* A plausible slip: the family is taken from every address given.
SetAddressFamilyFromIpAddr_Overwrites(af, addr) ==
    IF addr.v = 4 THEN "Inet" ELSE "Inet6"

\* set_address_family_from_ip_addr: the header's family after the call.
SetAddressFamilyFromIpAddr(af, addr) ==
    IF af # "Unspec" THEN af
    ELSE IF addr.v = 4 THEN "Inet" ELSE "Inet6"

\* The match of source_prefix on the header's family: the error it returns,
\* or NoErr.
SourcePrefixCheck(af, addr, p) ==
    IF af = "Inet"
    THEN IF addr.v = 6 \/ p > 32 THEN ErrSourcePrefix(addr, p) ELSE NoErr
    ELSE IF af = "Inet6"
    THEN IF addr.v = 4 \/ p > 128 THEN ErrSourcePrefix(addr, p) ELSE NoErr
    ELSE ErrAddressFamily(af)

\* The match of pref_source.
PrefSourceCheck(af, addr) ==
    IF af = "Inet"
    THEN IF addr.v = 6 THEN ErrPrefSource(addr) ELSE NoErr
    ELSE IF af = "Inet6"
    THEN IF addr.v = 4 THEN ErrPrefSource(addr) ELSE NoErr
    ELSE ErrAddressFamily(af)

\* A plausible slip: only the prefix length is validated.
DestinationPrefixCheck_LengthOnly(af, addr, p) ==
    IF af = "Inet"
    THEN IF p > 32 THEN ErrDestinationPrefix(addr, p) ELSE NoErr
    ELSE IF af = "Inet6"
    THEN IF p > 128 THEN ErrDestinationPrefix(addr, p) ELSE NoErr
    ELSE ErrAddressFamily(af)

\* The match of destination_prefix.
DestinationPrefixCheck(af, addr, p) ==
    IF af = "Inet"
    THEN IF addr.v = 6 \/ p > 32 THEN ErrDestinationPrefix(addr, p) ELSE NoErr
    ELSE IF af = "Inet6"
    THEN IF addr.v = 4 \/ p > 128
         THEN ErrDestinationPrefix(addr, p) ELSE NoErr
    ELSE ErrAddressFamily(af)

\* The match of gateway.
GatewayCheck(af, addr) ==
    IF af = "Inet"
    THEN IF addr.v = 6 THEN ErrGateway(addr) ELSE NoErr
    ELSE IF af = "Inet6"
    THEN IF addr.v = 4 THEN ErrGateway(addr) ELSE NoErr
    ELSE ErrAddressFamily(af)

\* What the callers pass in.
RouteAddrInputs == {V4(10, 0, 0, 1), V6(8193, 1)}
RoutePrefixInputs == {24, Ipv4PrefixMax + 1, Ipv6PrefixMax + 1}
TableInputs == {100, 255, 256}
FamilyInputs == {"Unspec", "Inet", "Inet6", "Mpls"}

Call(op, addr, p) == [op |-> op, addr |-> addr, p |-> p]

InitRoute ==
    /\ ConnInit
    /\ ab = NoBuilder
    /\ MoreInit
    /\ rb = [st |-> "building", message |-> RouteMessageNew, err |-> NoErr,
             calls |-> <<>>]

\* The builder after a setter that validated with error e and, when there
\* was none, left message m.
Outcome(c, e, m) ==
    IF e = NoErr
    THEN [rb EXCEPT !.message = m, !.calls = Append(@, c)]
    ELSE [rb EXCEPT !.st = "failed", !.message = NoMessage, !.err = e,
              !.calls = Append(@, c)]

\* The route message is held by a RouteAddRequest (and not by a
\* RouteMessageBuilder) when its first call was one of the request's.
RequestOps == {"add_table_id", "add_source_prefix", "add_pref_source",
               "add_destination_prefix", "add_gateway"}

HeldByRequest ==
    rb # NoBuilder /\ rb.calls # <<>> /\ rb.calls[1].op \in RequestOps

CanCall ==
    /\ rb # NoBuilder /\ rb.st = "building" /\ Len(rb.calls) < MaxCalls
    /\ ~HeldByRequest

source_prefix(addr, prefix_length) ==
    /\ CanCall
    /\ LET af == SetAddressFamilyFromIpAddr(rb.message.address_family, addr)
           m == [rb.message EXCEPT !.address_family = af,
                     !.attributes = Append(@, Attr("Source", addr)),
                     !.source_prefix_length = prefix_length]
       IN rb' = Outcome(Call("source_prefix", addr, prefix_length),
                        SourcePrefixCheck(af, addr, prefix_length), m)
    /\ UNCHANGED <<connVars, ab, moreVars>>

pref_source(addr) ==
    /\ CanCall
    /\ LET af == SetAddressFamilyFromIpAddr(rb.message.address_family, addr)
           m == [rb.message EXCEPT !.address_family = af,
                     !.attributes = Append(@, Attr("PrefSource", addr))]
       IN rb' = Outcome(Call("pref_source", addr, 0),
                        PrefSourceCheck(af, addr), m)
    /\ UNCHANGED <<connVars, ab, moreVars>>

destination_prefix(addr, prefix_length) ==
    /\ CanCall
    /\ LET af == SetAddressFamilyFromIpAddr(rb.message.address_family, addr)
           m == [rb.message EXCEPT !.address_family = af,
                     !.destination_prefix_length = prefix_length,
                     !.attributes = Append(@, Attr("Destination", addr))]
       IN rb' = Outcome(Call("destination_prefix", addr, prefix_length),
                        DestinationPrefixCheck(af, addr, prefix_length), m)
    /\ UNCHANGED <<connVars, ab, moreVars>>

gateway(addr) ==
    /\ CanCall
    /\ LET af == SetAddressFamilyFromIpAddr(rb.message.address_family, addr)
           m == [rb.message EXCEPT !.address_family = af,
                     !.attributes = Append(@, Attr("Gateway", addr))]
       IN rb' = Outcome(Call("gateway", addr, 0), GatewayCheck(af, addr), m)
    /\ UNCHANGED <<connVars, ab, moreVars>>

\* A plausible slip: the id is always cast into the header field.
table_id_Truncates(table) ==
    /\ CanCall
    /\ rb' = Outcome(Call("table_id", None, table), NoErr,
                     [rb.message EXCEPT !.table = table % 256])
    /\ UNCHANGED <<connVars, ab, moreVars>>

table_id(table) ==
    /\ CanCall
    /\ LET m == IF table > 255
                THEN [rb.message EXCEPT
                          !.attributes = Append(@, Attr("Table", table))]
                ELSE [rb.message EXCEPT !.table = table]
       IN rb' = Outcome(Call("table_id", None, table), NoErr, m)
    /\ UNCHANGED <<connVars, ab, moreVars>>

\* get_mut(): the caller writes the header's address family directly.
get_mut(af) ==
    /\ CanCall
    /\ rb' = Outcome(Call("get_mut", None, 0), NoErr,
                     [rb.message EXCEPT !.address_family = af])
    /\ UNCHANGED <<connVars, ab, moreVars>>

\* RouteAddRequest::table_id, on the message RouteAddRequest::new made
\* with the same header as the builder's.
RouteAddTableId(table) ==
    /\ rb # NoBuilder /\ rb.st = "building" /\ Len(rb.calls) < MaxCalls
    /\ rb.calls = <<>> \/ HeldByRequest
    /\ LET m == IF table > 255
                THEN [rb.message EXCEPT
                          !.attributes = Append(@, Attr("Table", table))]
                ELSE [rb.message EXCEPT !.table = table % 256]
       IN rb' = Outcome(Call("add_table_id", None, table), NoErr, m)
    /\ UNCHANGED <<connVars, ab, moreVars>>

RequestCanCall ==
    /\ rb # NoBuilder /\ rb.st = "building" /\ Len(rb.calls) < MaxCalls
    /\ rb.calls = <<>> \/ HeldByRequest

\* RouteAddRequest<IpAddr>::source_prefix.
RouteAddSourcePrefix(addr, prefix_length) ==
    /\ RequestCanCall
    /\ LET af == SetAddressFamilyFromIpAddr(rb.message.address_family, addr)
           m == [rb.message EXCEPT !.address_family = af,
                     !.attributes = Append(@, Attr("Source", addr)),
                     !.source_prefix_length = prefix_length]
       IN rb' = Outcome(Call("add_source_prefix", addr, prefix_length),
                        SourcePrefixCheck(af, addr, prefix_length), m)
    /\ UNCHANGED <<connVars, ab, moreVars>>

\* RouteAddRequest<IpAddr>::pref_source.
RouteAddPrefSource(addr) ==
    /\ RequestCanCall
    /\ LET af == SetAddressFamilyFromIpAddr(rb.message.address_family, addr)
           m == [rb.message EXCEPT !.address_family = af,
                     !.attributes = Append(@, Attr("PrefSource", addr))]
       IN rb' = Outcome(Call("add_pref_source", addr, 0),
                        PrefSourceCheck(af, addr), m)
    /\ UNCHANGED <<connVars, ab, moreVars>>

\* RouteAddRequest<IpAddr>::destination_prefix.
RouteAddDestinationPrefix(addr, prefix_length) ==
    /\ RequestCanCall
    /\ LET af == SetAddressFamilyFromIpAddr(rb.message.address_family, addr)
           m == [rb.message EXCEPT !.address_family = af,
                     !.destination_prefix_length = prefix_length,
                     !.attributes = Append(@, Attr("Destination", addr))]
       IN rb' = Outcome(Call("add_destination_prefix", addr, prefix_length),
                        DestinationPrefixCheck(af, addr, prefix_length), m)
    /\ UNCHANGED <<connVars, ab, moreVars>>

\* RouteAddRequest<IpAddr>::gateway.
RouteAddGateway(addr) ==
    /\ RequestCanCall
    /\ LET af == SetAddressFamilyFromIpAddr(rb.message.address_family, addr)
           m == [rb.message EXCEPT !.address_family = af,
                     !.attributes = Append(@, Attr("Gateway", addr))]
       IN rb' = Outcome(Call("add_gateway", addr, 0),
                        GatewayCheck(af, addr), m)
    /\ UNCHANGED <<connVars, ab, moreVars>>

build ==
    /\ rb # NoBuilder /\ rb.st = "building" /\ ~HeldByRequest
    /\ rb' = [rb EXCEPT !.st = "built"]
    /\ UNCHANGED <<connVars, ab, moreVars>>

NextRoute ==
    \/ \E addr \in RouteAddrInputs, p \in RoutePrefixInputs :
           source_prefix(addr, p)
    \/ \E addr \in RouteAddrInputs : pref_source(addr)
    \/ \E addr \in RouteAddrInputs, p \in RoutePrefixInputs :
           destination_prefix(addr, p)
    \/ \E addr \in RouteAddrInputs : gateway(addr)
    \/ \E t \in TableInputs : table_id(t)
    \/ \E t \in TableInputs : RouteAddTableId(t)
    \/ \E addr \in RouteAddrInputs, p \in RoutePrefixInputs :
           RouteAddSourcePrefix(addr, p)
    \/ \E addr \in RouteAddrInputs : RouteAddPrefSource(addr)
    \/ \E addr \in RouteAddrInputs, p \in RoutePrefixInputs :
           RouteAddDestinationPrefix(addr, p)
    \/ \E addr \in RouteAddrInputs : RouteAddGateway(addr)
    \/ \E af \in FamilyInputs : get_mut(af)
    \/ build

SpecRoute == InitRoute /\ [][NextRoute]_vars

\* ------------------------------------------------------------- C10
\* The builder was given a gateway of one family, accepted, and then, its
\* header untouched by get_mut, a destination prefix of the other family.
GatewayThenOtherFamily ==
    /\ rb # NoBuilder
    /\ Len(rb.calls) >= 2
    /\ LET last == rb.calls[Len(rb.calls)] IN
       /\ last.op = "destination_prefix"
       /\ \E i \in 1 .. (Len(rb.calls) - 1) :
            /\ rb.calls[i].op = "gateway"
            /\ rb.calls[i].addr.v # last.addr.v
       /\ \A i \in 1 .. Len(rb.calls) : rb.calls[i].op # "get_mut"

\* C10 (as claimed): a builder given a gateway of one family and then a
\* destination prefix of the other family returns an AddressFamily
\* validation error and no built message, and nothing is sent.
C10_Original ==
    GatewayThenOtherFamily =>
        /\ rb.st = "failed" /\ rb.message = NoMessage
        /\ rb.err.tag = "AddressFamily"
        /\ wrote = 0 /\ sockIn = <<>>

\* C10 (amended): a builder given a gateway of one family and then, its
\* header's family still the one the gateway set, a destination prefix of
\* the other family returns the DestinationPrefix validation error carrying
\* the rejected address and prefix length, and no built message; nothing is
\* sent to the kernel.
C10_DestinationPrefixError ==
    GatewayThenOtherFamily =>
        LET last == rb.calls[Len(rb.calls)] IN
        /\ rb.st = "failed" /\ rb.message = NoMessage
        /\ rb.err = ErrDestinationPrefix(last.addr, last.p)
        /\ wrote = 0 /\ sockIn = <<>> /\ pending = {}

C10_Witness ==
    /\ GatewayThenOtherFamily
    /\ rb.calls[1] = Call("gateway", V4(10, 0, 0, 1), 0)
    /\ rb.calls[2] = Call("destination_prefix", V6(8193, 1), 24)
    /\ rb.st = "failed"
    /\ rb.err.tag = "DestinationPrefix"

\* ------------------------------------------------------------- C18
\* One table_id(t) call, of the builder or of the Add request.
TableIdStep ==
    /\ rb # NoBuilder /\ rb' # NoBuilder
    /\ Len(rb'.calls) = Len(rb.calls) + 1
    /\ rb'.calls[Len(rb'.calls)].op \in {"table_id", "add_table_id"}

\* C18: a table_id(t) call with t <= 255 sets the header table field to t
\* and adds no attribute; one with t > 255 appends a Table(t) attribute and
\* leaves the header table field as it was, so that no part of t is cast
\* into it.
C18_TableIdStep ==
    TableIdStep =>
        LET t == rb'.calls[Len(rb'.calls)].p IN
        IF t <= 255
        THEN /\ rb'.message.table = t
             /\ rb'.message.attributes = rb.message.attributes
        ELSE /\ rb'.message.attributes =
                    Append(rb.message.attributes, Attr("Table", t))
             /\ rb'.message.table = rb.message.table
             /\ rb'.message.table # t % 256

C18_TableId == [][C18_TableIdStep]_vars

\* An Add request was given table 100 and then table 256: the header says
\* 100 and the message carries Table(256).
C18_Witness ==
    /\ rb # NoBuilder
    /\ rb.calls = <<Call("add_table_id", None, 100),
                    Call("add_table_id", None, 256)>>
    /\ rb.message.table = 100
    /\ rb.message.attributes = <<Attr("Table", 256)>>

\* ------------------------------------------------------------- C21
\* The four setters that take an address, of the builder and of the request.
AddressOps == {"source_prefix", "pref_source", "destination_prefix",
               "gateway", "add_source_prefix", "add_pref_source",
               "add_destination_prefix", "add_gateway"}

OnlyAddressCalls ==
    /\ rb # NoBuilder /\ rb.calls # <<>>
    /\ \A i \in 1 .. Len(rb.calls) : rb.calls[i].op \in AddressOps

FamilyOf(addr) == IF addr.v = 4 THEN "Inet" ELSE "Inet6"

\* C21: after source_prefix / pref_source / destination_prefix / gateway
\* calls that all returned Ok, the header family is that of the first
\* address given, every address given and every Source, PrefSource,
\* Destination and Gateway attribute is of that family, and both prefix
\* lengths are at most 32 for Inet and 128 for Inet6; so a call with an
\* address of the other family has returned an error, and then there is no
\* builder left.
C21_FamilyFixedByFirst ==
    OnlyAddressCalls =>
        IF rb.st = "failed"
        THEN rb.message = NoMessage /\ rb.err # NoErr
        ELSE LET first == FamilyOf(rb.calls[1].addr)
                 max == IF first = "Inet" THEN Ipv4PrefixMax
                        ELSE Ipv6PrefixMax
             IN  /\ rb.message.address_family = first
                 /\ \A i \in 1 .. Len(rb.calls) :
                        FamilyOf(rb.calls[i].addr) = first
                 /\ Len(rb.message.attributes) = Len(rb.calls)
                 /\ \A i \in 1 .. Len(rb.message.attributes) :
                        /\ rb.message.attributes[i].name \in
                               {"Source", "PrefSource", "Destination",
                                "Gateway"}
                        /\ FamilyOf(rb.message.attributes[i].value) = first
                 /\ rb.message.source_prefix_length <= max
                 /\ rb.message.destination_prefix_length <= max

\* A request was given an IPv6 gateway, an IPv6 destination of length 33
\* and an IPv6 source: all three were accepted and the family is Inet6.
C21_Witness ==
    /\ rb # NoBuilder /\ rb.st = "building"
    /\ rb.calls = <<Call("add_gateway", V6(8193, 1), 0),
                    Call("add_destination_prefix", V6(8193, 1), 33),
                    Call("add_source_prefix", V6(8193, 1), 24)>>
    /\ rb.message.address_family = "Inet6"
    /\ Len(rb.message.attributes) = 3


\* ============================================================= SpecAddrGet
\* AddressGetRequest: the kernel dumps the addresses of every link and the
\* request filters them on the client side. An Ipv6Addr is the pair of its
\* first and last segments; IpAddr::V6(x) wraps it.
\* Number of address messages in one dump.
MaxDump == 2

NoneV == [some |-> FALSE]
Some(x) == [some |-> TRUE, val |-> x]

Ipv6(hi, lo) == <<hi, lo>>
IpAddrV6(x) == [v |-> 6, o |-> x]

\* AddressFilterBuilder::new()
AddressFilterBuilderNew ==
    [index |-> NoneV, address |-> NoneV, prefix_len |-> NoneV]

RECURSIVE AddressMatch(_, _)
\* The loop of the filter over msg.attributes: TRUE at the first Address or
\* Local equal to the address, or Multicast or Anycast whose IpAddr::V6 is
\* equal to it; FALSE when the attributes run out.
AddressMatch(attributes, address) ==
    IF attributes = <<>> THEN FALSE
    ELSE LET nla == Head(attributes) IN
         IF nla.name \in {"Address", "Local"}
         THEN IF nla.value = address THEN TRUE
              ELSE AddressMatch(Tail(attributes), address)
         ELSE IF nla.name \in {"Multicast", "Anycast"}
         THEN IF IpAddrV6(nla.value) = address THEN TRUE
              ELSE AddressMatch(Tail(attributes), address)
         ELSE AddressMatch(Tail(attributes), address)

RECURSIVE AddressMatch_UnicastOnly(_, _)
AddressMatch_UnicastOnly(attributes, address) ==
    IF attributes = <<>> THEN FALSE
    ELSE LET nla == Head(attributes) IN
         IF nla.name \in {"Address", "Local"} /\ nla.value = address
         THEN TRUE
         ELSE AddressMatch_UnicastOnly(Tail(attributes), address)

\* A plausible slip: the Multicast and Anycast attributes are not looked at.
AddressFilter_UnicastOnly(f, msg) ==
    IF f.index.some /\ msg.index # f.index.val THEN FALSE
    ELSE IF f.prefix_len.some /\ msg.prefix_len # f.prefix_len.val THEN FALSE
    ELSE IF f.address.some
    THEN AddressMatch_UnicastOnly(msg.attributes, f.address.val)
    ELSE TRUE

\* The closure AddressFilterBuilder::build returns, applied to msg.
AddressFilter(f, msg) ==
    IF f.index.some /\ msg.index # f.index.val THEN FALSE
    ELSE IF f.prefix_len.some /\ msg.prefix_len # f.prefix_len.val THEN FALSE
    ELSE IF f.address.some THEN AddressMatch(msg.attributes, f.address.val)
    ELSE TRUE

\* What the kernel dumps: the addresses of links 2 and 3.
DumpAttributes ==
    {<<Attr("Address", V4(10, 0, 0, 1)), Attr("Local", V4(10, 0, 0, 1)),
       Attr("Broadcast", V4(10, 0, 0, 255))>>,
     <<Attr("Address", V4(10, 0, 0, 2)), Attr("Local", V4(10, 0, 0, 1))>>,
     <<Attr("Broadcast", V4(10, 0, 0, 1)), Attr("Label", V4(0, 0, 0, 0))>>,
     <<Attr("Address", V6(65152, 1))>>,
     <<Attr("Multicast", Ipv6(65282, 1))>>,
     <<Attr("CacheInfo", V4(0, 0, 0, 0)), Attr("Anycast", Ipv6(65152, 1))>>}
DumpMessages ==
    [family : {"Unspec"}, index : {2, 3}, prefix_len : {24},
     attributes : DumpAttributes]
        \cup [family : {"Unspec"}, index : {3}, prefix_len : {64},
              attributes : {<<Attr("Address", V6(65152, 1))>>}]
\* What the callers filter on.
FilterIndexInputs == {3}
FilterPrefixInputs == {24}
FilterAddressInputs == {V4(10, 0, 0, 1), V6(65152, 1), V6(65282, 1)}

notGf == <<connVars, ab, rb, ns, ng, fl, lb, mc, tf, lastVars>>

InitAddrGet ==
    /\ LastInit
    /\ ConnInit /\ ab = NoBuilder /\ rb = NoBuilder
    /\ ns = NoBuilder /\ ng = NoBuilder /\ fl = NoBuilder
    /\ lb = NoBuilder /\ mc = NoBuilder /\ tf = NoBuilder
    /\ gf = [st |-> "new", filter_builder |-> AddressFilterBuilderNew,
             dumped |-> <<>>, yielded |-> <<>>]

set_link_index_filter(index) ==
    /\ gf # NoBuilder /\ gf.st = "new"
    /\ gf' = [gf EXCEPT !.filter_builder.index = Some(index)]
    /\ UNCHANGED notGf

set_prefix_length_filter(prefix) ==
    /\ gf # NoBuilder /\ gf.st = "new"
    /\ gf' = [gf EXCEPT !.filter_builder.prefix_len = Some(prefix)]
    /\ UNCHANGED notGf

set_address_filter(address) ==
    /\ gf # NoBuilder /\ gf.st = "new"
    /\ gf' = [gf EXCEPT !.filter_builder.address = Some(address)]
    /\ UNCHANGED notGf

\* execute(): the filter is built and the request sent.
AddressGetExecute ==
    /\ gf # NoBuilder /\ gf.st = "new"
    /\ gf' = [gf EXCEPT !.st = "streaming"]
    /\ UNCHANGED notGf

\* The next NewAddress message of the dump passes through
\* .map(try_rtnl!).try_filter(filter).
AddressGetItem(msg) ==
    /\ gf # NoBuilder /\ gf.st = "streaming"
    /\ Len(gf.dumped) < MaxDump
    /\ gf' = [gf EXCEPT !.dumped = Append(@, msg),
                  !.yielded = IF AddressFilter(gf.filter_builder, msg)
                              THEN Append(@, msg) ELSE @]
    /\ UNCHANGED notGf

\* The dump ends.
AddressGetDone ==
    /\ gf # NoBuilder /\ gf.st = "streaming"
    /\ gf' = [gf EXCEPT !.st = "ended"]
    /\ UNCHANGED notGf

NextAddrGet ==
    \/ \E i \in FilterIndexInputs : set_link_index_filter(i)
    \/ \E p \in FilterPrefixInputs : set_prefix_length_filter(p)
    \/ \E a \in FilterAddressInputs : set_address_filter(a)
    \/ AddressGetExecute
    \/ \E msg \in DumpMessages : AddressGetItem(msg)
    \/ AddressGetDone

SpecAddrGet == InitAddrGet /\ [][NextAddrGet]_vars


\* ------------------------------------------------------------- C28
OnlyTableIdCalls ==
    /\ rb # NoBuilder /\ rb.st # "failed" /\ rb.calls # <<>>
    /\ \A i \in 1 .. Len(rb.calls) :
           rb.calls[i].op \in {"table_id", "add_table_id"}

\* C28: after table_id() calls only, of the builder or of the Add request,
\* the message names the table of the last call and no other: an id of at
\* most 255 is in the header table field and there is no Table attribute;
\* an id above 255 is in the one Table attribute there is.
C28_LastTableId ==
    OnlyTableIdCalls =>
        LET t == rb.calls[Len(rb.calls)].p
            tables == SelectSeq(rb.message.attributes,
                                LAMBDA a : a.name = "Table")
        IN  IF t <= 255
            THEN rb.message.table = t /\ tables = <<>>
            ELSE tables = <<Attr("Table", t)>>

\* ------------------------------------------------------------- C11
\* msg carries addr as one of its Address, Local, Multicast or Anycast
\* attributes.
CarriesAddress(msg, addr) ==
    \E i \in 1 .. Len(msg.attributes) :
        LET nla == msg.attributes[i] IN
        \/ nla.name \in {"Address", "Local"} /\ nla.value = addr
        \/ /\ nla.name \in {"Multicast", "Anycast"}
           /\ addr.v = 6 /\ addr.o = nla.value

\* msg passes every filter that was set.
PassesAll(f, msg) ==
    /\ f.index.some => msg.index = f.index.val
    /\ f.prefix_len.some => msg.prefix_len = f.prefix_len.val
    /\ f.address.some => CarriesAddress(msg, f.address.val)

RECURSIVE Passing(_, _)
Passing(f, q) ==
    IF q = <<>> THEN <<>>
    ELSE IF PassesAll(f, Head(q)) THEN <<Head(q)>> \o Passing(f, Tail(q))
    ELSE Passing(f, Tail(q))

\* C11: the stream of AddressGetRequest yields, in dump order, exactly the
\* dumped messages that pass every filter set: the link index filter passes
\* a message iff its header index is the index, the address filter iff the
\* address is one of its Address, Local, Multicast or Anycast attributes.
C11_FilterExact ==
    (gf # NoBuilder /\ gf.st \in {"streaming", "ended"}) =>
        gf.yielded = Passing(gf.filter_builder, gf.dumped)

\* Index and address filter both set; of two messages of link 3 the one
\* carrying the address as Anycast was yielded, the one without it was not.
C11_Witness ==
    /\ gf # NoBuilder /\ gf.st = "ended"
    /\ gf.filter_builder.index = Some(3)
    /\ gf.filter_builder.address = Some(V6(65152, 1))
    /\ Len(gf.dumped) = 2 /\ Len(gf.yielded) = 1
    /\ gf.dumped[1].index = 3 /\ gf.dumped[2].index = 3
    /\ \E i \in 1 .. Len(gf.yielded[1].attributes) :
           gf.yielded[1].attributes[i].name = "Anycast"
    /\ \E i \in 1 .. Len(gf.dumped[1].attributes) :
           gf.dumped[1].attributes[i] = Attr("Broadcast", V4(10, 0, 0, 1))


\* ================================================================== SpecNs
\* NetworkNamespace::add and ::del, against the file system they work on:
\* the directory /run/netns, the files in it and the namespaces bind-mounted
\* on them. One caller runs the operations one after the other. A system
\* call fails for what the file system and the caller's privilege say, or
\* because the environment makes it fail (out of memory, a signal).
\* Number of add/del calls made.
MaxNsOps == 3

NsNames == {"test42", "blue"}

NsOk == [tag |-> "Ok"]
NamespaceError(msg) == [tag |-> "NamespaceError", msg |-> msg]

\* Wait statuses, and what else add's fork and waitpid can come back with.
Exited(res) == [w |-> "Exited", res |-> res]
Signaled(signal) == [w |-> "Signaled", signal |-> signal]
OtherStatus == [w |-> "Stopped"]
WaitError == [w |-> "WaitError"]
ForkError == [w |-> "ForkError"]

\* A plausible slip: any normal exit counts as success.
parent_process_AnyExit(status) ==
    IF status.w = "Exited" THEN NsOk
    ELSE NamespaceError("child failed")

\* NetworkNamespace::parent_process, given what waitpid returned.
parent_process(status) ==
    IF status.w = "Exited"
    THEN IF status.res = 0 THEN NsOk
         ELSE NamespaceError("Error child result")
    ELSE IF status.w = "Signaled"
    THEN NamespaceError("Error child process was killed by signal")
    ELSE IF status.w = "WaitError"
    THEN NamespaceError("wait error")
    ELSE NamespaceError("Unknown child process status")

NoOp == [kind |-> "none"]
NoChild == [pc |-> "none"]

notNs == <<connVars, ab, rb, gf, ng, fl, lb, mc, tf, lastVars>>

\* dir: the state of /run/netns ("absent", "plain" or "shared" mount);
\* files: the names with a file in it; pinned: the names with a namespace
\* mounted on their file; log: the calls that returned; ran: the steps the
\* child of the add in progress has run, each with whether it succeeded.
InitNs ==
    /\ LastInit
    /\ ConnInit /\ ab = NoBuilder /\ rb = NoBuilder /\ gf = NoBuilder
    /\ ng = NoBuilder /\ fl = NoBuilder /\ lb = NoBuilder
    /\ mc = NoBuilder /\ tf = NoBuilder
    /\ ns \in [root : BOOLEAN, dir : {"absent", "plain", "shared"},
               files : {{}}, pinned : {{}}, op : {NoOp}, child : {NoChild},
               log : {<<>>}, ran : {<<>>}]

NsIdle == ns # NoBuilder /\ ns.op = NoOp /\ Len(ns.log) < MaxNsOps

\* add(ns_name) up to the fork: the child starts, or fork() fails.
NsAddFork(ns_name, forked) ==
    /\ NsIdle
    /\ LET o == [kind |-> "add", name |-> ns_name,
                 fresh |-> ns_name \notin ns.files, clean |-> forked]
       IN IF forked
          THEN ns' = [ns EXCEPT !.op = o, !.child = [pc |-> "mkdir"]]
          ELSE ns' = [ns EXCEPT !.log = Append(@,
                          [op |-> "add", name |-> ns_name,
                           status |-> ForkError,
                           result |-> NamespaceError("Fork failed"),
                           fresh |-> o.fresh, clean |-> FALSE])]
    /\ UNCHANGED notNs

ChildAt(pc) == ns # NoBuilder /\ ns.child.pc = pc

\* One step the child has run.
Step(name, ok) == [step |-> name, ok |-> ok]

\* The child leaves through exit(code).
ChildExit(code) == [pc |-> "dead", status |-> Exited(code)]

\* child_process_create_ns: stat and mkdir of /run/netns.
ChildMkdir ==
    /\ ChildAt("mkdir")
    /\ IF ns.dir # "absent"
       THEN ns' = [ns EXCEPT !.child.pc = "share",
                       !.ran = Append(@, Step("mkdir", TRUE))]
       ELSE IF ns.root
       THEN ns' = [ns EXCEPT !.dir = "plain", !.child.pc = "share",
                       !.ran = Append(@, Step("mkdir", TRUE))]
       ELSE ns' = [ns EXCEPT !.child = ChildExit(1),
                       !.ran = Append(@, Step("mkdir", FALSE))]
    /\ UNCHANGED notNs

\* child_process_create_ns: the mounts that make /run/netns a shared mount.
ChildShare ==
    /\ ChildAt("share")
    /\ IF ns.root
       THEN ns' = [ns EXCEPT !.dir = "shared", !.child.pc = "create",
                       !.ran = Append(@, Step("share", TRUE))]
       ELSE ns' = [ns EXCEPT !.child = ChildExit(1),
                       !.ran = Append(@, Step("share", FALSE))]
    /\ UNCHANGED notNs

\* child_process_create_ns: open(O_CREAT | O_EXCL) and close of the file.
ChildCreate(closed) ==
    /\ ChildAt("create")
    /\ IF ns.op.name \in ns.files
       THEN /\ closed
            /\ ns' = [ns EXCEPT !.child = ChildExit(1),
                          !.ran = Append(@, Step("create", FALSE))]
       ELSE IF closed
       THEN ns' = [ns EXCEPT !.files = @ \cup {ns.op.name},
                       !.child.pc = "unshare",
                       !.ran = Append(@, Step("create", TRUE))]
       ELSE ns' = [ns EXCEPT !.child = ChildExit(1), !.op.clean = FALSE,
                       !.ran = Append(@, Step("create", FALSE))]
    /\ UNCHANGED notNs

\* A plausible slip: a failing unshare is logged and the child goes on.
ChildUnshare_GoesOn(ok) ==
    /\ ChildAt("unshare")
    /\ ns' = [ns EXCEPT !.child.pc = "openself",
                  !.op.clean = @ /\ ok,
                  !.ran = Append(@, Step("unshare", ok))]
    /\ UNCHANGED notNs

\* unshare_processing: unshare(CLONE_NEWNET); the file is unlinked when it
\* fails.
ChildUnshare(ok) ==
    /\ ChildAt("unshare")
    /\ IF ok
       THEN ns' = [ns EXCEPT !.child.pc = "openself",
                       !.ran = Append(@, Step("unshare", TRUE))]
       ELSE ns' = [ns EXCEPT !.files = @ \ {ns.op.name},
                       !.child = ChildExit(1), !.op.clean = FALSE,
                       !.ran = Append(@, Step("unshare", FALSE))]
    /\ UNCHANGED notNs

\* unshare_processing: open of /proc/self/ns/net; nothing is unlinked when
\* it fails.
ChildOpenSelf(ok) ==
    /\ ChildAt("openself")
    /\ IF ok
       THEN ns' = [ns EXCEPT !.child.pc = "bind",
                       !.ran = Append(@, Step("openself", TRUE))]
       ELSE ns' = [ns EXCEPT !.child = ChildExit(1), !.op.clean = FALSE,
                       !.ran = Append(@, Step("openself", FALSE))]
    /\ UNCHANGED notNs

\* unshare_processing: the bind mount of the new namespace on the file.
ChildBind(ok) ==
    /\ ChildAt("bind")
    /\ IF ok
       THEN ns' = [ns EXCEPT !.pinned = @ \cup {ns.op.name},
                       !.child.pc = "setns",
                       !.ran = Append(@, Step("bind", TRUE))]
       ELSE ns' = [ns EXCEPT !.files = @ \ {ns.op.name},
                       !.child = ChildExit(1), !.op.clean = FALSE,
                       !.ran = Append(@, Step("bind", FALSE))]
    /\ UNCHANGED notNs

\* unshare_processing: setns, and exit(0) after it; when setns fails the
\* unlink of the file, now a mount point, fails too and is ignored.
ChildSetns(ok) ==
    /\ ChildAt("setns")
    /\ IF ok
       THEN ns' = [ns EXCEPT !.child = ChildExit(0),
                       !.ran = Append(@, Step("setns", TRUE))]
       ELSE ns' = [ns EXCEPT !.child = ChildExit(1), !.op.clean = FALSE,
                       !.ran = Append(@, Step("setns", FALSE))]
    /\ UNCHANGED notNs

\* The child is killed by a signal, or aborts after a panic.
ChildSignal(signal) ==
    /\ ns # NoBuilder
    /\ ns.child.pc \notin {"none", "dead"}
    /\ ns' = [ns EXCEPT !.child = [pc |-> "dead",
                                   status |-> Signaled(signal)],
                  !.op.clean = FALSE]
    /\ UNCHANGED notNs

\* The parent's waitpid returns: the child's status, or another status, or
\* an error.
NsAddWait(seen) ==
    /\ ChildAt("dead")
    /\ seen \in {ns.child.status, OtherStatus, WaitError}
    /\ LET o == [ns.op EXCEPT !.clean = @ /\ seen = ns.child.status] IN
       ns' = [ns EXCEPT !.op = NoOp, !.child = NoChild, !.ran = <<>>,
                  !.log = Append(@,
                      [op |-> "add", name |-> o.name, status |-> seen,
                       result |-> parent_process(seen),
                       fresh |-> o.fresh, clean |-> o.clean])]
    /\ UNCHANGED notNs

\* A plausible slip: the file is unmounted but not unlinked.
NsDel_NoUnlink(ns_name) ==
    /\ NsIdle
    /\ LET umounted == ns.root /\ ns_name \in ns.pinned
           result == IF ~umounted
                     THEN NamespaceError("Namespace unmount failed")
                     ELSE NsOk
       IN ns' = [ns EXCEPT
                     !.pinned = IF umounted THEN @ \ {ns_name} ELSE @,
                     !.log = Append(@,
                         [op |-> "del", name |-> ns_name,
                          status |-> OtherStatus, result |-> result,
                          fresh |-> ns_name \notin ns.files,
                          clean |-> TRUE])]
    /\ UNCHANGED notNs

\* del(ns_name): umount2(MNT_DETACH) of the file, then its unlink.
NsDel(ns_name) ==
    /\ NsIdle
    /\ LET umounted == ns.root /\ ns_name \in ns.pinned
           unlinked == umounted /\ ns_name \in ns.files
           result == IF ~umounted
                     THEN NamespaceError("Namespace unmount failed")
                     ELSE IF ~unlinked
                     THEN NamespaceError("Namespace file remove failed")
                     ELSE NsOk
       IN ns' = [ns EXCEPT
                     !.pinned = IF umounted THEN @ \ {ns_name} ELSE @,
                     !.files = IF unlinked THEN @ \ {ns_name} ELSE @,
                     !.log = Append(@,
                         [op |-> "del", name |-> ns_name,
                          status |-> OtherStatus, result |-> result,
                          fresh |-> ns_name \notin ns.files,
                          clean |-> TRUE])]
    /\ UNCHANGED notNs

NextNs ==
    \/ \E n \in NsNames, forked \in BOOLEAN : NsAddFork(n, forked)
    \/ ChildMkdir
    \/ ChildShare
    \/ \E closed \in BOOLEAN : ChildCreate(closed)
    \/ \E ok \in BOOLEAN : ChildUnshare(ok)
    \/ \E ok \in BOOLEAN : ChildOpenSelf(ok)
    \/ \E ok \in BOOLEAN : ChildBind(ok)
    \/ \E ok \in BOOLEAN : ChildSetns(ok)
    \/ \E sig \in {"SIGKILL", "SIGABRT"} : ChildSignal(sig)
    \/ \E seen \in {Exited(0), Exited(1), Signaled("SIGKILL"),
                    Signaled("SIGABRT"), OtherStatus, WaitError} :
           NsAddWait(seen)
    \/ \E n \in NsNames : NsDel(n)

SpecNs == InitNs /\ [][NextNs]_vars


\* ------------------------------------------------------------- C12
\* C12: add(n) of a new name by a privileged caller, nothing failing in
\* the environment, returns Ok; del(n) right after an add(n) that returned
\* Ok returns Ok too and leaves no file (and no mount) at /run/netns/n;
\* del(n) of a name add was never called with returns a NamespaceError.
C12_AddDelRoundTrip ==
    ns # NoBuilder =>
        LET log == ns.log IN
        /\ \A i \in 1 .. Len(log) :
            (log[i].op = "add" /\ ns.root /\ log[i].fresh /\ log[i].clean)
                => log[i].result = NsOk
        /\ \A i \in 1 .. (Len(log) - 1) :
            (/\ log[i].op = "add" /\ log[i].result = NsOk
             /\ log[i + 1].op = "del" /\ log[i + 1].name = log[i].name) =>
                /\ log[i + 1].result = NsOk
                /\ (i + 1 = Len(log) /\ ns.op = NoOp) =>
                       /\ log[i].name \notin ns.files
                       /\ log[i].name \notin ns.pinned
        /\ \A j \in 1 .. Len(log) :
            (/\ log[j].op = "del"
             /\ \A i \in 1 .. (j - 1) :
                    ~(log[i].op = "add" /\ log[i].name = log[j].name)) =>
                log[j].result.tag = "NamespaceError"

\* add("test42") and del("test42") returned Ok and the file is gone; del of
\* a name never added returned an error.
C12_Witness ==
    /\ ns # NoBuilder /\ Len(ns.log) = 3
    /\ ns.log[1].op = "add" /\ ns.log[1].name = "test42"
    /\ ns.log[1].result = NsOk
    /\ ns.log[2].op = "del" /\ ns.log[2].name = "test42"
    /\ ns.log[2].result = NsOk
    /\ ns.log[3].op = "del" /\ ns.log[3].name = "blue"
    /\ ns.log[3].result.tag = "NamespaceError"
    /\ ns.files = {}

\* ------------------------------------------------------------- C13
\* C13: add returns Ok(()) iff waitpid reported that the child exited with
\* status 0; a non-zero exit status, a signal, any other wait status, a
\* waitpid error and a fork failure each give a NamespaceError; and what it
\* returns depends on nothing but what fork and waitpid reported.
C13_ExitStatusDecides ==
    ns # NoBuilder =>
        LET log == ns.log
            adds == {i \in 1 .. Len(log) : log[i].op = "add"}
        IN
        /\ \A i \in adds :
            /\ (log[i].result = NsOk) <=> (log[i].status = Exited(0))
            /\ log[i].status # Exited(0) =>
                   log[i].result.tag = "NamespaceError"
            /\ log[i].status.w \in {"Exited", "Signaled", "Stopped",
                                    "WaitError", "ForkError"}
        /\ \A i, j \in adds :
            log[i].status = log[j].status => log[i].result = log[j].result

\* One add returned Ok; another returned an error because its child was
\* killed, although the namespace it made is in place.
C13_Witness ==
    /\ ns # NoBuilder
    /\ \E i, j \in 1 .. Len(ns.log) :
        /\ ns.log[i].op = "add" /\ ns.log[i].result = NsOk
        /\ ns.log[j].op = "add" /\ ns.log[j].status.w = "Signaled"
        /\ ns.log[j].result.tag = "NamespaceError"
        /\ ns.log[j].name \in ns.pinned
    /\ \E k \in 1 .. Len(ns.log) :
        ns.log[k].op = "add" /\ ns.log[k].status = Exited(1)

\* ------------------------------------------------------------- C22
\* The steps of the child, in the order of the code.
ChildSteps == <<"mkdir", "share", "create", "unshare", "openself", "bind",
                "setns">>

\* C22: the steps the child has run are the first steps of: make
\* /run/netns and share it, create the file exclusively and close it,
\* unshare, open the own namespace file, bind-mount it on the file, setns;
\* every step but the last one run has succeeded; the child exits with 0
\* only after all steps succeeded and with 1 when its last step failed, and
\* with no other status.
C22_ChildStepsInOrder ==
    (ns # NoBuilder /\ ns.child # NoChild) =>
        /\ Len(ns.ran) <= Len(ChildSteps)
        /\ \A i \in 1 .. Len(ns.ran) :
               /\ ns.ran[i].step = ChildSteps[i]
               /\ i < Len(ns.ran) => ns.ran[i].ok
        /\ ns.child.pc # "dead" =>
               /\ \A i \in 1 .. Len(ns.ran) : ns.ran[i].ok
               /\ ns.child.pc = ChildSteps[Len(ns.ran) + 1]
        /\ (ns.child.pc = "dead" /\ ns.child.status.w = "Exited") =>
               /\ ns.ran # <<>>
               /\ ns.child.status.res \in {0, 1}
               /\ ns.child.status.res = 0 <=>
                      /\ Len(ns.ran) = Len(ChildSteps)
                      /\ ns.ran[Len(ns.ran)].ok
               /\ ns.child.status.res = 1 <=> ~ns.ran[Len(ns.ran)].ok
        /\ (\E i \in 1 .. Len(ns.ran) :
                ns.ran[i] = Step("create", TRUE)) =>
               \/ ns.op.name \in ns.files
               \/ ns.child.pc = "dead"
        /\ (\E i \in 1 .. Len(ns.ran) : ns.ran[i] = Step("bind", TRUE)) =>
               ns.op.name \in ns.pinned

\* A child whose bind mount failed after the file was made and the
\* namespace unshared: it has exited with 1 and never called setns.
C22_Witness ==
    /\ ns # NoBuilder /\ ns.child.pc = "dead"
    /\ ns.child.status = Exited(1)
    /\ Len(ns.ran) = 6
    /\ ns.ran[6] = Step("bind", FALSE)
    /\ ns.ran[4] = Step("unshare", TRUE)

\* ------------------------------------------------------------- C26
\* C26: when a step of the child fails after the namespace file was created
\* (unshare, the open of the own namespace file, the bind mount, setns),
\* the file no longer exists when the child exits.
C26_NoStaleFile ==
    (/\ ns # NoBuilder /\ ns.child.pc = "dead"
     /\ ns.child.status = Exited(1)
     /\ \E i \in 1 .. Len(ns.ran) : ns.ran[i] = Step("create", TRUE)) =>
        ns.op.name \notin ns.files


\* =============================================================== SpecGuard
\* NetnsGuard: one thread, the network namespace it is in, and the guards
\* it holds. A descriptor is modelled by the namespace it refers to.
\* Number of NetnsGuard::new calls the thread makes.
MaxGuards == 3

HostNs == "host"
\* The paths new() is called with, and the namespace behind each: a file
\* that is no namespace, and a path with no file, have none.
GuardPaths == {"", "/run/netns/red", "/run/netns/blue", "/etc/hostname",
               "/run/netns/missing"}
PathExists(path) == path # "/run/netns/missing"
NsOfPath(path) ==
    IF path = "/run/netns/red" THEN Some("red")
    ELSE IF path = "/run/netns/blue" THEN Some("blue")
    ELSE NoneV
\* What the environment may make fail in one call.
GuardFaults == {"none", "open_current", "open_new", "setns"}

notNg == <<connVars, ab, rb, gf, ns, fl, lb, mc, tf, lastVars>>

\* cur: the namespace the thread is in; guards: the live guards, oldest
\* first; ev: what the thread did last, with the namespace it was in before
\* (was); lifo: every drop so far was of the newest live guard.
InitGuard ==
    /\ LastInit
    /\ ConnInit /\ ab = NoBuilder /\ rb = NoBuilder /\ gf = NoBuilder
    /\ ns = NoBuilder /\ fl = NoBuilder /\ lb = NoBuilder
    /\ mc = NoBuilder /\ tf = NoBuilder
    /\ ng = [cur |-> HostNs, guards |-> <<>>, made |-> 0, lifo |-> TRUE,
             ev |-> [what |-> "start", was |-> HostNs, path |-> "",
                     old |-> NoneV]]

GuardCanAct == ng # NoBuilder /\ ng.ev.what # "panic"

\* A plausible slip: the current namespace is opened after the switch.
NetnsGuardNew_OpenAfter(new_netns_path, fault) ==
    /\ GuardCanAct /\ ng.made < MaxGuards
    /\ LET failed ==
               \/ new_netns_path # "" /\ fault # "none"
               \/ new_netns_path # "" /\ ~PathExists(new_netns_path)
               \/ new_netns_path # "" /\ ~NsOfPath(new_netns_path).some
           target == IF new_netns_path = "" THEN ng.cur
                     ELSE NsOfPath(new_netns_path).val
           old_netns == IF new_netns_path = "" THEN NoneV ELSE Some(target)
       IN IF failed
          THEN ng' = [ng EXCEPT !.made = @ + 1,
                          !.ev = [what |-> "new_err", was |-> ng.cur,
                                  path |-> new_netns_path, old |-> NoneV]]
          ELSE ng' = [ng EXCEPT !.made = @ + 1, !.cur = target,
                          !.guards = Append(@, [old_netns |-> old_netns,
                                                was |-> ng.cur]),
                          !.ev = [what |-> "new_ok", was |-> ng.cur,
                                  path |-> new_netns_path,
                                  old |-> old_netns]]
    /\ UNCHANGED notNg

\* NetnsGuard::new(new_netns_path): for a non-empty path, open the thread's
\* current namespace, open the new one, setns into it; each step may fail
\* and then nothing has changed.
NetnsGuardNew(new_netns_path, fault) ==
    /\ GuardCanAct /\ ng.made < MaxGuards
    /\ LET opened_old == fault # "open_current"
           opened_new == PathExists(new_netns_path) /\ fault # "open_new"
           switched == NsOfPath(new_netns_path).some /\ fault # "setns"
           failed == /\ new_netns_path # ""
                     /\ ~(opened_old /\ opened_new /\ switched)
           old_netns == IF new_netns_path # "" THEN Some(ng.cur) ELSE NoneV
       IN IF failed
          THEN ng' = [ng EXCEPT !.made = @ + 1,
                          !.ev = [what |-> "new_err", was |-> ng.cur,
                                  path |-> new_netns_path, old |-> NoneV]]
          ELSE ng' = [ng EXCEPT !.made = @ + 1,
                          !.cur = IF new_netns_path # ""
                                  THEN NsOfPath(new_netns_path).val ELSE @,
                          !.guards = Append(@, [old_netns |-> old_netns,
                                                was |-> ng.cur]),
                          !.ev = [what |-> "new_ok", was |-> ng.cur,
                                  path |-> new_netns_path,
                                  old |-> old_netns]]
    /\ UNCHANGED notNg

\* The sequence q without its element i.
Without(q, i) == SubSeq(q, 1, i - 1) \o SubSeq(q, i + 1, Len(q))

\* Drop of the guard at place i: setns back to the retained descriptor,
\* unwrap()ed, so that a failing setns panics.
NetnsGuardDrop(i, ok) ==
    /\ GuardCanAct
    /\ i \in 1 .. Len(ng.guards)
    /\ LET g == ng.guards[i] IN
       IF g.old_netns.some /\ ~ok
       THEN ng' = [ng EXCEPT !.guards = Without(@, i),
                       !.ev = [what |-> "panic", was |-> g.was,
                               path |-> "", old |-> g.old_netns]]
       ELSE /\ g.old_netns.some \/ ok
            /\ ng' = [ng EXCEPT !.guards = Without(@, i),
                          !.cur = IF g.old_netns.some
                                  THEN g.old_netns.val ELSE @,
                          !.lifo = @ /\ i = Len(ng.guards),
                          !.ev = [what |-> "dropped", was |-> g.was,
                                  path |-> "", old |-> g.old_netns]]
    /\ UNCHANGED notNg

NextGuard ==
    \/ \E path \in GuardPaths, fault \in GuardFaults :
           NetnsGuardNew(path, fault)
    \/ \E i \in 1 .. MaxGuards, ok \in BOOLEAN : NetnsGuardDrop(i, ok)

SpecGuard == InitGuard /\ [][NextGuard]_vars

MaxFlagCalls == 3

NLM_F_REPLACE == "REPLACE"
NLM_F_EXCL == "EXCL"
NLM_F_CREATE == "CREATE"
NLM_F_APPEND == "APPEND"

\* The bit of each flag in the 16-bit flag word of the netlink header.
FlagBit(f) ==
    CASE f = NLM_F_REQUEST -> 1
      [] f = NLM_F_ACK -> 4
      [] f = NLM_F_REPLACE -> 256
      [] f = NLM_F_EXCL -> 512
      [] f = NLM_F_CREATE -> 1024
      [] f = NLM_F_APPEND -> 2048

U16Mod == 65536

HasBit(w, b) == (w \div b) % 2 = 1
\* w | b and w - b for a single bit b; the subtraction wraps as a u16 does
\* in a build without overflow checks.
BitOr16(w, b) == IF HasBit(w, b) THEN w ELSE w + b
WrappingSub16(w, b) == (w - b + U16Mod) % U16Mod

RECURSIVE OrAll(_)
\* f1 | f2 | ... of the flags of a sequence.
OrAll(fs) ==
    IF fs = <<>> THEN 0
    ELSE BitOr16(OrAll(SubSeq(fs, 1, Len(fs) - 1)), FlagBit(fs[Len(fs)]))

AddKinds == {"link", "address", "route", "nexthop", "neighbour"}
SetFlagsInputs == {0, OrAll(<<NLM_F_REQUEST, NLM_F_ACK>>),
                   OrAll(<<NLM_F_REQUEST, NLM_F_ACK, NLM_F_CREATE,
                           NLM_F_REPLACE>>)}

notFl == <<connVars, ab, rb, gf, ns, ng, lb, mc, tf, lastVars>>

\* new() of the five requests: the link request holds its flag word, the
\* others hold booleans that execute() turns into flags.
InitFlags ==
    /\ LastInit
    /\ ConnInit /\ ab = NoBuilder /\ rb = NoBuilder /\ gf = NoBuilder
    /\ ns = NoBuilder /\ ng = NoBuilder /\ lb = NoBuilder
    /\ mc = NoBuilder /\ tf = NoBuilder
    /\ \E kind \in AddKinds :
           fl = [st |-> "building", kind |-> kind,
                 flags |-> IF kind = "link"
                           THEN OrAll(<<NLM_F_REQUEST, NLM_F_ACK,
                                        NLM_F_CREATE, NLM_F_EXCL>>)
                           ELSE 0,
                 replace |-> FALSE, append |-> FALSE,
                 calls |-> <<>>, sent |-> NoneV]

FlagsCanCall ==
    fl # NoBuilder /\ fl.st = "building" /\ Len(fl.calls) < MaxFlagCalls

\* LinkAddRequest::replace: flags -= NLM_F_EXCL; flags |= NLM_F_REPLACE.
\* The subtraction of a u16 below NLM_F_EXCL panics in a build with
\* overflow checks and wraps in one without.
LinkAddReplace(overflow_checks) ==
    /\ FlagsCanCall /\ fl.kind = "link"
    /\ IF fl.flags < FlagBit(NLM_F_EXCL)
       THEN IF overflow_checks
            THEN fl' = [fl EXCEPT !.st = "panic",
                            !.calls = Append(@, "replace")]
            ELSE fl' = [fl EXCEPT
                            !.flags = BitOr16(
                                WrappingSub16(@, FlagBit(NLM_F_EXCL)),
                                FlagBit(NLM_F_REPLACE)),
                            !.calls = Append(@, "replace")]
       ELSE fl' = [fl EXCEPT
                       !.flags = BitOr16(@ - FlagBit(NLM_F_EXCL),
                                         FlagBit(NLM_F_REPLACE)),
                       !.calls = Append(@, "replace")]
    /\ UNCHANGED notFl

\* LinkAddRequest::set_flags.
LinkAddSetFlags(flags) ==
    /\ FlagsCanCall /\ fl.kind = "link"
    /\ fl' = [fl EXCEPT !.flags = flags, !.calls = Append(@, "set_flags")]
    /\ UNCHANGED notFl

\* replace() of the address, route, nexthop and neighbour requests.
AddReplace ==
    /\ FlagsCanCall /\ fl.kind # "link"
    /\ fl' = [fl EXCEPT !.replace = TRUE, !.calls = Append(@, "replace")]
    /\ UNCHANGED notFl

\* RouteAddRequest::v4 and v6: the typed request is made with
\* replace: false.
RouteAddTyped(family) ==
    /\ FlagsCanCall /\ fl.kind = "route"
    /\ fl' = [fl EXCEPT !.replace = FALSE, !.calls = Append(@, family)]
    /\ UNCHANGED notFl

\* NeighbourAddRequest::append.
NeighbourAppend ==
    /\ FlagsCanCall /\ fl.kind = "neighbour"
    /\ fl' = [fl EXCEPT !.append = TRUE, !.calls = Append(@, "append")]
    /\ UNCHANGED notFl

\* A plausible slip: append is looked at first.
NeighbourFlag_AppendFirst(replace, append) ==
    IF append THEN NLM_F_APPEND
    ELSE IF replace THEN NLM_F_REPLACE
    ELSE NLM_F_EXCL

\* nl_msg_flags of NeighbourAddRequest::execute.
NeighbourFlag(replace, append) ==
    IF replace THEN NLM_F_REPLACE
    ELSE IF append THEN NLM_F_APPEND
    ELSE NLM_F_EXCL

\* The flag word execute() puts in the header.
ExecuteFlags ==
    IF fl.kind = "link" THEN fl.flags
    ELSE IF fl.kind = "neighbour"
    THEN OrAll(<<NLM_F_REQUEST, NLM_F_ACK,
                 NeighbourFlag(fl.replace, fl.append), NLM_F_CREATE>>)
    ELSE OrAll(<<NLM_F_REQUEST, NLM_F_ACK,
                 IF fl.replace THEN NLM_F_REPLACE ELSE NLM_F_EXCL,
                 NLM_F_CREATE>>)

\* execute(): the request goes out with its flag word.
AddExecute ==
    /\ fl # NoBuilder /\ fl.st = "building"
    /\ fl' = [fl EXCEPT !.st = "sent", !.sent = Some(ExecuteFlags)]
    /\ UNCHANGED notFl

NextFlags ==
    \/ \E overflow_checks \in BOOLEAN : LinkAddReplace(overflow_checks)
    \/ \E flags \in SetFlagsInputs : LinkAddSetFlags(flags)
    \/ AddReplace
    \/ \E family \in {"v4", "v6"} : RouteAddTyped(family)
    \/ NeighbourAppend
    \/ AddExecute

SpecFlags == InitFlags /\ [][NextFlags]_vars

Called(name) == \E i \in 1 .. Len(fl.calls) : fl.calls[i] = name

\* ------------------------------------------------------------- C15
\* C15: a link, address, route or nexthop Add request that set_flags was
\* not called on is sent with flags exactly REQUEST|ACK|CREATE|EXCL when
\* replace() was not called, and exactly REQUEST|ACK|CREATE|REPLACE when
\* it was.
C15_AddFlags ==
    (/\ fl # NoBuilder /\ fl.st = "sent"
     /\ fl.kind \in {"link", "address", "route", "nexthop"}
     /\ ~Called("set_flags")) =>
        fl.sent = Some(OrAll(<<NLM_F_REQUEST, NLM_F_ACK, NLM_F_CREATE,
                               IF Called("replace") THEN NLM_F_REPLACE
                               ELSE NLM_F_EXCL>>))

\* ------------------------------------------------------------- C16
\* C16: a neighbour Add request is sent with REQUEST|ACK|CREATE and exactly
\* one of REPLACE, APPEND, EXCL: REPLACE when replace() was called, with
\* append() or without and in either order; otherwise APPEND when append()
\* was called; otherwise EXCL. execute() has no error of its own for both.
C16_NeighbourFlags ==
    (fl # NoBuilder /\ fl.st = "sent" /\ fl.kind = "neighbour") =>
        /\ fl.sent.some
        /\ fl.sent.val =
               OrAll(<<NLM_F_REQUEST, NLM_F_ACK, NLM_F_CREATE,
                       IF Called("replace") THEN NLM_F_REPLACE
                       ELSE IF Called("append") THEN NLM_F_APPEND
                       ELSE NLM_F_EXCL>>)
        /\ Cardinality({f \in {NLM_F_REPLACE, NLM_F_APPEND, NLM_F_EXCL} :
                            HasBit(fl.sent.val, FlagBit(f))}) = 1

\* replace() and then append() were called, and the request went out with
\* REPLACE and without APPEND.
C16_Witness ==
    /\ fl # NoBuilder /\ fl.st = "sent" /\ fl.kind = "neighbour"
    /\ fl.calls = <<"replace", "append">>
    /\ HasBit(fl.sent.val, FlagBit(NLM_F_REPLACE))
    /\ ~HasBit(fl.sent.val, FlagBit(NLM_F_APPEND))


\* =============================================================== SpecLink
\* LinkMessageBuilder: the four LinkInfo fields, the extra attributes, and
\* the message build() makes of them.
\* Number of setter calls made on one builder before build().
MaxLinkCalls == 4

InfoKinds == {"Bridge", "Vlan"}
InfoDatas == {"BridgeData", "VlanData"}
InfoPortKinds == {"BondPort"}
InfoPortDatas == {"BondPortData", "BridgePortData"}
\* Attributes handed to append_extra_attribute by name(), mtu() and
\* controller(); none of them is a LinkInfo.
ExtraAttributes == {Attr("IfName", "my-nic"), Attr("Mtu", 1500),
                    Attr("Controller", 63)}

notLb == <<connVars, ab, rb, gf, ns, ng, fl, mc, tf, lastVars>>

LinkCall(op, x) == [op |-> op, value |-> x]

\* LinkMessageBuilder::default(), or new_with_info_kind(info_kind).
InitLink ==
    /\ LastInit
    /\ ConnInit /\ ab = NoBuilder /\ rb = NoBuilder /\ gf = NoBuilder
    /\ ns = NoBuilder /\ ng = NoBuilder /\ fl = NoBuilder
    /\ mc = NoBuilder /\ tf = NoBuilder
    /\ \E info_kind \in {NoneV} \cup {Some(k) : k \in InfoKinds} :
           lb = [st |-> "building", info_kind |-> info_kind,
                 info_data |-> NoneV, port_kind |-> NoneV,
                 port_data |-> NoneV, extra_attriutes |-> <<>>,
                 calls |-> IF info_kind.some
                           THEN <<LinkCall("info_kind", info_kind.val)>>
                           ELSE <<>>,
                 message |-> NoMessage]

LinkCanCall ==
    /\ lb # NoBuilder /\ lb.st = "building"
    /\ Len(lb.calls) < MaxLinkCalls

append_extra_attribute(link_attr) ==
    /\ LinkCanCall
    /\ lb' = [lb EXCEPT !.extra_attriutes = Append(@, link_attr),
                        !.calls = Append(@, LinkCall("extra", link_attr))]
    /\ UNCHANGED notLb

set_info_data(info_data) ==
    /\ LinkCanCall
    /\ lb' = [lb EXCEPT !.info_data = Some(info_data),
                        !.calls = Append(@, LinkCall("info_data", info_data))]
    /\ UNCHANGED notLb

set_port_kind(port_kind) ==
    /\ LinkCanCall
    /\ lb' = [lb EXCEPT !.port_kind = Some(port_kind),
                        !.calls = Append(@, LinkCall("port_kind", port_kind))]
    /\ UNCHANGED notLb

set_port_data(port_data) ==
    /\ LinkCanCall
    /\ lb' = [lb EXCEPT !.port_data = Some(port_data),
                        !.calls = Append(@, LinkCall("port_data", port_data))]
    /\ UNCHANGED notLb

\* A plausible slip: the LinkInfo attribute is pushed even when empty.
LinkBuildAttributes_AlwaysInfo(b) ==
    LET kind == IF b.info_kind.some
                THEN <<Attr("Kind", b.info_kind.val)>> ELSE <<>>
        data == IF b.info_data.some
                THEN <<Attr("Data", b.info_data.val)>> ELSE <<>>
        pkind == IF b.port_kind.some
                 THEN <<Attr("PortKind", b.port_kind.val)>> ELSE <<>>
        pdata == IF b.port_data.some
                 THEN <<Attr("PortData", b.port_data.val)>> ELSE <<>>
    IN  Append(b.extra_attriutes,
               Attr("LinkInfo", kind \o data \o pkind \o pdata))

\* The attributes build() gives the message: the extra attributes, then
\* one LinkInfo holding Kind, Data, PortKind, PortData as far as each is
\* set, unless it would be empty.
LinkBuildAttributes(b) ==
    LET kind == IF b.info_kind.some
                THEN <<Attr("Kind", b.info_kind.val)>> ELSE <<>>
        data == IF b.info_data.some
                THEN <<Attr("Data", b.info_data.val)>> ELSE <<>>
        pkind == IF b.port_kind.some
                 THEN <<Attr("PortKind", b.port_kind.val)>> ELSE <<>>
        pdata == IF b.port_data.some
                 THEN <<Attr("PortData", b.port_data.val)>> ELSE <<>>
        link_infos == kind \o data \o pkind \o pdata
    IN  IF link_infos # <<>>
        THEN Append(b.extra_attriutes, Attr("LinkInfo", link_infos))
        ELSE b.extra_attriutes

\* LinkMessageBuilder::build.
LinkBuild ==
    /\ lb # NoBuilder /\ lb.st = "building"
    /\ lb' = [lb EXCEPT !.st = "built",
                        !.message = [attributes |-> LinkBuildAttributes(lb)]]
    /\ UNCHANGED notLb

NextLink ==
    \/ \E link_attr \in ExtraAttributes : append_extra_attribute(link_attr)
    \/ \E info_data \in InfoDatas : set_info_data(info_data)
    \/ \E port_kind \in InfoPortKinds : set_port_kind(port_kind)
    \/ \E port_data \in InfoPortDatas : set_port_data(port_data)
    \/ LinkBuild

SpecLink == InitLink /\ [][NextLink]_vars


\* ------------------------------------------------------------- C24
\* The single bits of a u16.
U16BitValues == {1, 2, 4, 8, 16, 32, 64, 128, 256, 512, 1024, 2048, 4096,
                 8192, 16384, 32768}

\* C24: each replace() on a link request, after whatever replace() and
\* set_flags() calls came before, returns with REPLACE set and EXCL clear
\* and every other bit of the flag word as it was, and the subtraction
\* in it does not go below zero (no panic, no wrap).
C24_ReplaceStep ==
    (/\ fl # NoBuilder /\ fl.kind = "link"
     /\ fl'.calls = Append(fl.calls, "replace")) =>
        /\ fl'.st # "panic"
        /\ fl.flags >= FlagBit(NLM_F_EXCL)
        /\ HasBit(fl'.flags, FlagBit(NLM_F_REPLACE))
        /\ ~HasBit(fl'.flags, FlagBit(NLM_F_EXCL))
        /\ \A b \in U16BitValues \ {FlagBit(NLM_F_REPLACE),
                                    FlagBit(NLM_F_EXCL)} :
               HasBit(fl'.flags, b) <=> HasBit(fl.flags, b)

C24_ReplaceIdempotent == [][C24_ReplaceStep]_vars

\* ------------------------------------------------------------- C25
\* C25: a route Add request on which replace() was called goes out with
\* REPLACE and without EXCL, whether v4() or v6() came after replace()
\* or before it.
C25_TypedKeepsReplace ==
    (/\ fl # NoBuilder /\ fl.st = "sent" /\ fl.kind = "route"
     /\ Called("replace")) =>
        /\ HasBit(fl.sent.val, FlagBit(NLM_F_REPLACE))
        /\ ~HasBit(fl.sent.val, FlagBit(NLM_F_EXCL))

\* ------------------------------------------------------------- C17
RECURSIVE CallsOf(_, _)
\* The values of the calls of the operations ops, in call order.
CallsOf(calls, ops) ==
    IF calls = <<>> THEN <<>>
    ELSE LET rest == CallsOf(SubSeq(calls, 1, Len(calls) - 1), ops)
             last == calls[Len(calls)]
         IN  IF last.op \in ops THEN Append(rest, last.value) ELSE rest

\* The place of an entry name in the order Kind, Data, PortKind, PortData.
LinkInfoRank(n) ==
    CASE n = "Kind" -> 1 [] n = "Data" -> 2
      [] n = "PortKind" -> 3 [] n = "PortData" -> 4

\* The setter behind each entry name.
LinkInfoOp(n) ==
    CASE n = "Kind" -> "info_kind" [] n = "Data" -> "info_data"
      [] n = "PortKind" -> "port_kind" [] n = "PortData" -> "port_data"

MaxGroups == 3

\* MulticastGroup::Link, Ipv6MrouteR, Nexthop and Ipv6Acaddr, as u32.
GroupInputs == {1, 31, 32, 39}

RECURSIVE SeqsUpTo(_, _)
\* The sequences over S of length at most n.
SeqsUpTo(S, n) ==
    IF n = 0 THEN {<<>>}
    ELSE LET shorter == SeqsUpTo(S, n - 1)
         IN  shorter \cup {Append(q, x) : q \in shorter, x \in S}

\* A plausible slip: the boundary is one too high.
need_via_add_membership_Above32(group) == group > 32

\* MulticastGroup::need_via_add_membership.
need_via_add_membership(group) == group > 31

Zero32 == [i \in 1 .. U32Bits |-> 0]
\* 1 << n on u32, for n < 32.
Shl1(n) == [i \in 1 .. U32Bits |-> IF i = U32Bits - n THEN 1 ELSE 0]

notMc == <<connVars, ab, rb, gf, ns, ng, fl, lb, tf, lastVars>>

\* After netlink_proto::new_connection_with_socket returned: pc is the
\* place in the function, i the place in the list, syscalls what the
\* socket was asked so far, overflow whether a shift or a subtraction
\* left the u32 range.
InitMulticast ==
    /\ LastInit
    /\ ConnInit /\ ab = NoBuilder /\ rb = NoBuilder /\ gf = NoBuilder
    /\ ns = NoBuilder /\ ng = NoBuilder /\ fl = NoBuilder
    /\ lb = NoBuilder /\ tf = NoBuilder
    /\ \E groups \in SeqsUpTo(GroupInputs, MaxGroups) :
           mc = [groups |-> groups, pc |-> "mask", i |-> 1,
                 all_groups |-> Zero32, syscalls |-> <<>>,
                 overflow |-> FALSE]

\* One turn of the first loop: a group that does not need add_membership
\* gives the mask its bit.
MaskStep ==
    /\ mc # NoBuilder /\ mc.pc = "mask" /\ mc.i <= Len(mc.groups)
    /\ LET group == mc.groups[mc.i] IN
       IF need_via_add_membership(group)
       THEN mc' = [mc EXCEPT !.i = @ + 1]
       ELSE IF group < 1 \/ group - 1 >= U32Bits
       THEN mc' = [mc EXCEPT !.i = @ + 1, !.overflow = TRUE]
       ELSE mc' = [mc EXCEPT !.i = @ + 1,
                       !.all_groups = BitOr(@, Shl1(group - 1))]
    /\ UNCHANGED notMc

\* bind(SocketAddr::new(0, all_groups))?
Bind(ok) ==
    /\ mc # NoBuilder /\ mc.pc = "mask" /\ mc.i > Len(mc.groups)
    /\ mc' = [mc EXCEPT
                  !.syscalls = Append(@, [op |-> "bind",
                                          arg |-> mc.all_groups]),
                  !.pc = IF ok THEN "membership" ELSE "err",
                  !.i = 1]
    /\ UNCHANGED notMc

\* One turn of the second loop: add_membership(group)? for a group that
\* needs it.
MembershipStep(ok) ==
    /\ mc # NoBuilder /\ mc.pc = "membership" /\ mc.i <= Len(mc.groups)
    /\ LET group == mc.groups[mc.i] IN
       IF need_via_add_membership(group)
       THEN mc' = [mc EXCEPT
                       !.syscalls = Append(@, [op |-> "add_membership",
                                               arg |-> group]),
                       !.pc = IF ok THEN @ ELSE "err",
                       !.i = @ + 1]
       ELSE /\ ok
            /\ mc' = [mc EXCEPT !.i = @ + 1]
    /\ UNCHANGED notMc

\* Ok((conn, Handle::new(handle), messages))
MulticastReturn ==
    /\ mc # NoBuilder /\ mc.pc = "membership" /\ mc.i > Len(mc.groups)
    /\ mc' = [mc EXCEPT !.pc = "ok"]
    /\ UNCHANGED notMc

NextMulticast ==
    \/ MaskStep
    \/ \E ok \in BOOLEAN : Bind(ok)
    \/ \E ok \in BOOLEAN : MembershipStep(ok)
    \/ MulticastReturn

SpecMulticast == InitMulticast /\ [][NextMulticast]_vars

\* ------------------------------------------------------------- C19
RECURSIVE Above31(_)
\* The entries of a group list that are above 31, in list order.
Above31(groups) ==
    IF groups = <<>> THEN <<>>
    ELSE LET rest == Above31(SubSeq(groups, 1, Len(groups) - 1))
             last == groups[Len(groups)]
         IN  IF last > 31 THEN Append(rest, last) ELSE rest

\* C19: the socket is bound once, first of all calls, with a mask whose
\* bit g - 1 is set exactly for the listed groups g <= 31; every later call
\* is an add_membership of a group above 31, and when the function returns
\* Ok there was one such call for each list entry above 31, in list order;
\* no shift or subtraction leaves the u32 range.
C19_MaskAndMembership ==
    mc # NoBuilder =>
        /\ ~mc.overflow
        /\ \A n \in 1 .. Len(mc.syscalls) :
               LET c == mc.syscalls[n] IN
               IF n = 1
               THEN /\ c.op = "bind"
                    /\ \A k \in 0 .. U32Bits - 1 :
                           c.arg[U32Bits - k] = 1 <=>
                               /\ k + 1 <= 31
                               /\ \E i \in 1 .. Len(mc.groups) :
                                      mc.groups[i] = k + 1
               ELSE c.op = "add_membership" /\ c.arg > 31
        /\ mc.pc \in {"membership", "ok"} => mc.syscalls # <<>>
        /\ mc.pc = "ok" =>
               [n \in 1 .. Len(mc.syscalls) - 1 |->
                    mc.syscalls[n + 1].arg] = Above31(mc.groups)

\* The list Ipv6Acaddr (39), Ipv6MrouteR (31), Nexthop (32): the function
\* returned Ok after bind with bit 30 alone and add_membership of 39 and 32.
C19_Witness ==
    /\ mc # NoBuilder /\ mc.pc = "ok"
    /\ mc.groups = <<39, 31, 32>>
    /\ Len(mc.syscalls) = 3
    /\ mc.syscalls[1].arg = Shl1(30)
    /\ mc.syscalls[2].arg = 39 /\ mc.syscalls[3].arg = 32


\* ============================================================ SpecTcFilter
\* TrafficFilterNewRequest: the attributes of its message, from new() to
\* execute().
\* Number of builder calls made on one request.
MaxTcCalls == 3

\* Error::InvalidNla("message kind has already been set.")
InvalidNla ==
    [tag |-> "InvalidNla", msg |-> "message kind has already been set."]

TcParentInputs == {0, 65535}
TcOptionInputs == {<<>>, <<"Selector">>}
TcIndexInputs == {1, 2}

notTf == <<connVars, ab, rb, gf, ns, ng, fl, lb, mc, lastVars>>

\* The u32 of a TcHandle, (major << 16) | minor, kept as its two u16
\* halves: the high half is what info >> 16 reads back.
TcHandle(major, minor) == [major |-> major, minor |-> minor]
TcPriorityInputs == {1, 65535}
TcProtocolInputs == {3, 2048}

\* TrafficFilterNewRequest::new: TcMessage::with_index(ifindex), no
\* attribute, info 0.
InitTcFilter ==
    /\ LastInit
    /\ ConnInit /\ ab = NoBuilder /\ rb = NoBuilder /\ gf = NoBuilder
    /\ ns = NoBuilder /\ ng = NoBuilder /\ fl = NoBuilder
    /\ lb = NoBuilder /\ mc = NoBuilder
    /\ tf = [st |-> "building", parent |-> 0, info |-> TcHandle(0, 0),
             attributes |-> <<>>, err |-> NoErr, calls |-> <<>>,
             sent |-> NoneV]

TcCanCall ==
    tf # NoBuilder /\ tf.st = "building" /\ Len(tf.calls) < MaxTcCalls

\* TrafficFilterNewRequest::parent.
TcParent(parent) ==
    /\ TcCanCall
    /\ tf' = [tf EXCEPT !.parent = parent,
                        !.calls = Append(@, [op |-> "parent",
                                             options |-> <<>>])]
    /\ UNCHANGED notTf

\* TrafficFilterNewRequest::priority: info is made anew from
\* TcHandle { major: priority, minor: priority }.
TcPriority(priority) ==
    /\ TcCanCall
    /\ tf' = [tf EXCEPT !.info = TcHandle(priority, priority),
                        !.calls = Append(@, [op |-> "priority",
                                             options |-> <<priority>>])]
    /\ UNCHANGED notTf

\* TrafficFilterNewRequest::protocol: major is (info >> 16) as u16.
TcProtocol(protocol) ==
    /\ TcCanCall
    /\ tf' = [tf EXCEPT !.info = TcHandle(tf.info.major, protocol),
                        !.calls = Append(@, [op |-> "protocol",
                                             options |-> <<protocol>>])]
    /\ UNCHANGED notTf

\* any(|nla| matches!(nla, TcAttribute::Kind(_)))
HasKind(attributes) ==
    \E i \in 1 .. Len(attributes) : attributes[i].name = "Kind"

\* The request after u32(options), called through op: Err(InvalidNla),
\* the request consumed, when the message has a Kind; else Kind("u32") and
\* Options(options) pushed.
U32Outcome(op, options) ==
    IF HasKind(tf.attributes)
    THEN [tf EXCEPT !.st = "failed", !.attributes = <<>>,
                    !.err = InvalidNla,
                    !.calls = Append(@, [op |-> op, options |-> options])]
    ELSE [tf EXCEPT !.attributes = @ \o <<Attr("Kind", "u32"),
                                          Attr("Options", options)>>,
                    !.calls = Append(@, [op |-> op, options |-> options])]

\* A plausible slip: u32() does not look for a Kind.
u32_NoCheck(options) ==
    /\ TcCanCall
    /\ tf' = [tf EXCEPT !.attributes = @ \o <<Attr("Kind", "u32"),
                                              Attr("Options", options)>>,
                        !.calls = Append(@, [op |-> "u32",
                                             options |-> options])]
    /\ UNCHANGED notTf

\* TrafficFilterNewRequest::u32.
u32(options) ==
    /\ TcCanCall
    /\ tf' = U32Outcome("u32", options)
    /\ UNCHANGED notTf

\* The options redirect() hands to u32(): a terminal selector with one key
\* and a mirred action that redirects to dst_index.
RedirectOptions(dst_index) ==
    <<"Selector", [action |-> "mirred", eaction |-> "EgressRedir",
                   ifindex |-> dst_index]>>

\* TrafficFilterNewRequest::redirect.
redirect(dst_index) ==
    /\ TcCanCall
    /\ tf' = U32Outcome("redirect", RedirectOptions(dst_index))
    /\ UNCHANGED notTf

\* TrafficFilterNewRequest::execute: the message goes out.
TcExecute ==
    /\ tf # NoBuilder /\ tf.st = "building"
    /\ tf' = [tf EXCEPT !.st = "sent", !.sent = Some(tf.attributes)]
    /\ UNCHANGED notTf

NextTcFilter ==
    \/ \E parent \in TcParentInputs : TcParent(parent)
    \/ \E priority \in TcPriorityInputs : TcPriority(priority)
    \/ \E protocol \in TcProtocolInputs : TcProtocol(protocol)
    \/ \E options \in TcOptionInputs : u32(options)
    \/ \E dst_index \in TcIndexInputs : redirect(dst_index)
    \/ TcExecute

SpecTcFilter == InitTcFilter /\ [][NextTcFilter]_vars

\* ------------------------------------------------------------- C20
\* The places in the call log of the u32() and redirect() calls.
KindCalls == {i \in 1 .. Len(tf.calls) : tf.calls[i].op \in {"u32", "redirect"}}

\* C20: a u32() or redirect() call on a request that had one before returns
\* Err(InvalidNla) and the request is gone, so that a request that is still
\* held or was executed had at most one such call; the first such call
\* succeeds and leaves Kind followed by Options, holding its options, as
\* the only attributes; nothing is sent with two Kind attributes.
C20_SecondKindFails ==
    tf # NoBuilder =>
        /\ tf.st = "failed" <=> Cardinality(KindCalls) = 2
        /\ tf.st = "failed" =>
               /\ tf.err = InvalidNla
               /\ Len(tf.calls) \in KindCalls
               /\ ~tf.sent.some
        /\ (tf.st # "failed" /\ KindCalls # {}) =>
               \E i \in KindCalls :
                   tf.attributes = <<Attr("Kind", "u32"),
                                     Attr("Options", tf.calls[i].options)>>
        /\ (tf.st # "failed" /\ KindCalls = {}) => tf.attributes = <<>>
        /\ tf.sent.some =>
               Cardinality({i \in 1 .. Len(tf.sent.val) :
                                tf.sent.val[i].name = "Kind"}) <= 1

\* redirect() to one link succeeded and a second redirect() to another
\* failed with InvalidNla.
C20_Witness ==
    /\ tf # NoBuilder /\ tf.st = "failed"
    /\ Len(tf.calls) = 3
    /\ tf.calls[1].op = "parent"
    /\ tf.calls[2] = [op |-> "redirect", options |-> RedirectOptions(2)]
    /\ tf.calls[3] = [op |-> "redirect", options |-> RedirectOptions(1)]
    /\ tf.err = InvalidNla


\* ------------------------------------------------------------- C27
\* The arguments of the calls of op in the log, in order.
TcArgsOf(op) ==
    LET cs == SelectSeq(tf.calls, LAMBDA c : c.op = op)
    IN  [i \in 1 .. Len(cs) |-> cs[i].options[1]]

\* C27: once priority(p) and protocol(q) were both called, in whichever
\* order, the header info is (p << 16) | q for the last p and the last q:
\* priority() keeps the protocol half and protocol() keeps the priority
\* half.
C27_PriorityProtocolCommute ==
    (/\ tf # NoBuilder /\ tf.st # "failed"
     /\ TcArgsOf("priority") # <<>> /\ TcArgsOf("protocol") # <<>>) =>
        LET ps == TcArgsOf("priority")
            qs == TcArgsOf("protocol")
        IN  tf.info = TcHandle(ps[Len(ps)], qs[Len(qs)])

\* ---------------------------------------------------------------------
\* RouteNextHopBuilder (route/builder.rs): the builder of one nexthop of
\* a multipath route.  via() takes the builder by value and gives back
\* Ok(builder) or Err(InvalidRouteMessage); the other setters cannot fail.
\* ---------------------------------------------------------------------
\* Number of calls made on one nexthop builder.
MaxNhCalls == 3
NhAddrInputs == {V4(10, 0, 0, 1), V6(8193, 1)}
NhIndexInputs == {1, 2}
NhLabelInputs == {<<>>, <<16>>}

notNh == <<connVars, ab, rb, gf, ns, ng, fl, lb, mc, tf, br, rg>>

NhCall(op, arg) == [op |-> op, arg |-> arg]

\* RouteNextHopBuilder::new(address_family): the default RouteNextHop.
InitNextHop ==
    /\ ConnInit /\ ab = NoBuilder /\ rb = NoBuilder /\ gf = NoBuilder
    /\ ns = NoBuilder /\ ng = NoBuilder /\ fl = NoBuilder
    /\ lb = NoBuilder /\ mc = NoBuilder /\ tf = NoBuilder
    /\ br = NoBuilder /\ rg = NoBuilder
    /\ nh \in [st : {"building"}, address_family : FamilyInputs,
               nexthop : {[interface_index |-> 0, onlink |-> FALSE,
                           attributes |-> <<>>]},
               err : {NoErr}, calls : {<<>>}]

NhCanCall ==
    nh # NoBuilder /\ nh.st = "building" /\ Len(nh.calls) < MaxNhCalls

\* RouteNextHopBuilder::interface.
NhInterface(index) ==
    /\ NhCanCall
    /\ nh' = [nh EXCEPT !.nexthop.interface_index = index,
                        !.calls = Append(@, NhCall("interface", index))]
    /\ UNCHANGED notNh

\* A plausible slip: every address of a family the route can carry
\* becomes a Gateway.
ViaAttribute_GatewayForIp(address_family, addr) ==
    IF address_family \in {"Inet", "Inet6"}
    THEN Attr("Gateway", addr)
    ELSE IF address_family = "Mpls" THEN Attr("Via", addr)
    ELSE ErrAddressFamily(address_family)

\* The match of RouteNextHopBuilder::via: the attribute, or the error of
\* the last arm.
ViaAttribute(address_family, addr) ==
    IF \/ address_family = "Inet" /\ addr.v = 4
       \/ address_family = "Inet6" /\ addr.v = 6
    THEN Attr("Gateway", addr)
    ELSE IF address_family = "Inet" /\ addr.v = 6
    THEN Attr("Via", addr)
    ELSE IF address_family = "Mpls"
    THEN Attr("Via", addr)
    ELSE ErrAddressFamily(address_family)

\* RouteNextHopBuilder::via.
NhVia(addr) ==
    /\ NhCanCall
    /\ LET attr == ViaAttribute(nh.address_family, addr)
       IN  nh' = IF "tag" \in DOMAIN attr
                 THEN [nh EXCEPT !.st = "failed", !.nexthop = NoMessage,
                                 !.err = attr,
                                 !.calls = Append(@, NhCall("via", addr))]
                 ELSE [nh EXCEPT !.nexthop.attributes = Append(@, attr),
                                 !.calls = Append(@, NhCall("via", addr))]
    /\ UNCHANGED notNh

\* RouteNextHopBuilder::onlink.
NhOnlink ==
    /\ NhCanCall
    /\ nh' = [nh EXCEPT !.nexthop.onlink = TRUE,
                        !.calls = Append(@, NhCall("onlink", 0))]
    /\ UNCHANGED notNh

\* RouteNextHopBuilder::mpls.
NhMpls(labels) ==
    /\ NhCanCall
    /\ nh' = [nh EXCEPT
                !.nexthop.attributes =
                    IF labels = <<>> THEN @
                    ELSE IF nh.address_family = "Mpls"
                    THEN Append(@, Attr("NewDestination", labels))
                    ELSE @ \o <<Attr("EncapType", "Mpls"),
                                Attr("Encap", labels)>>,
                !.calls = Append(@, NhCall("mpls", labels))]
    /\ UNCHANGED notNh

\* RouteNextHopBuilder::build.
NhBuild ==
    /\ nh # NoBuilder /\ nh.st = "building"
    /\ nh' = [nh EXCEPT !.st = "built"]
    /\ UNCHANGED notNh

NextNextHop ==
    \/ \E index \in NhIndexInputs : NhInterface(index)
    \/ \E addr \in NhAddrInputs : NhVia(addr)
    \/ NhOnlink
    \/ \E labels \in NhLabelInputs : NhMpls(labels)
    \/ NhBuild

SpecNextHop == InitNextHop /\ [][NextNextHop]_vars

\* ------------------------------------------------------------- C23
IsGatewayOrVia(a) == a.name \in {"Gateway", "Via"}

\* The via() calls of the log, in order.
ViaCalls == SelectSeq(nh.calls, LAMBDA c : c.op = "via")

\* The family of the route and the family of the address agree.
SameFamily(af, addr) ==
    \/ af = "Inet" /\ addr.v = 4
    \/ af = "Inet6" /\ addr.v = 6

\* What the nexthop holds for a via(addr) that succeeded.
ViaExpected(af, addr) ==
    IF SameFamily(af, addr) THEN Attr("Gateway", addr) ELSE Attr("Via", addr)

\* via(addr) on a route of family af returns Ok.
ViaAccepted(af, addr) ==
    SameFamily(af, addr) \/ (af = "Inet" /\ addr.v = 6) \/ af = "Mpls"

\* C23: each via(addr) with addr of the route's family added one Gateway
\* attribute, each via() with an IPv6 address on an Inet route or with any
\* address on an Mpls route added one Via attribute and no Gateway, and a
\* via() of any other combination returned the AddressFamily error of the
\* route's family, consumed the builder and so added nothing.
C23_ViaAttribute ==
    nh # NoBuilder =>
        LET af == nh.address_family
            n == Len(ViaCalls)
        IN  /\ nh.st = "failed" <=>
                   (n > 0 /\ ~ViaAccepted(af, ViaCalls[n].arg))
            /\ nh.st = "failed" =>
                   /\ nh.err = ErrAddressFamily(af)
                   /\ nh.nexthop = NoMessage
                   /\ nh.calls[Len(nh.calls)].op = "via"
            /\ nh.st # "failed" =>
                   LET got == SelectSeq(nh.nexthop.attributes,
                                        IsGatewayOrVia)
                   IN  /\ Len(got) = n
                       /\ \A i \in 1 .. n :
                              got[i] = ViaExpected(af, ViaCalls[i].arg)

\* An Inet nexthop took an IPv4 gateway and then an IPv6 one: Gateway,
\* then Via.
C23_Witness ==
    /\ nh # NoBuilder /\ nh.st = "built"
    /\ nh.address_family = "Inet"
    /\ nh.calls = <<NhCall("via", V4(10, 0, 0, 1)),
                    NhCall("via", V6(8193, 1))>>
    /\ nh.nexthop.attributes = <<Attr("Gateway", V4(10, 0, 0, 1)),
                                 Attr("Via", V6(8193, 1))>>

\* ---------------------------------------------------------------------
\* LinkMessageBuilder<LinkBridge> (link/bridge.rs): the bridge info data
\* and the boolean options in it.  BridgeBooleanOptionFlags values are
\* sets of options; value and mask of a MultiBoolOpt entry are two of
\* them.
\* ---------------------------------------------------------------------
\* Number of calls made on one bridge builder.
MaxBridgeCalls == 3
BridgeOptions == {"MstEnable", "NoLinkLocalLearn"}
\* The opt arguments: the flag of a named setter, and a union of two.
BridgeOptInputs == {{"MstEnable"}, {"NoLinkLocalLearn"}, BridgeOptions}

MultiBoolOpt(value, mask) ==
    Attr("MultiBoolOpt", [value |-> value, mask |-> mask])

IsMultiBoolOpt(info) == info.name = "MultiBoolOpt"

\* The InfoBridge values a caller hands to append_info_data.
BridgeInfoInputs ==
    {Attr("VlanFiltering", TRUE),
     MultiBoolOpt({"NoLinkLocalLearn"}, {"NoLinkLocalLearn"})}
\* The InfoData values a caller hands to set_info_data.
InfoDataInputs == {[kind |-> "Bridge", infos |-> <<>>],
                   [kind |-> "Vlan", infos |-> <<>>]}

notBr == <<connVars, ab, rb, gf, ns, ng, fl, lb, mc, tf, nh, rg>>

BridgeCall(op, opt, value, info) ==
    [op |-> op, opt |-> opt, value |-> value, info |-> info]

NoInfo == Attr("none", 0)

\* LinkMessageBuilder::<LinkBridge>::new: info_data is None.
InitBridge ==
    /\ ConnInit /\ ab = NoBuilder /\ rb = NoBuilder /\ gf = NoBuilder
    /\ ns = NoBuilder /\ ng = NoBuilder /\ fl = NoBuilder
    /\ lb = NoBuilder /\ mc = NoBuilder /\ tf = NoBuilder
    /\ nh = NoBuilder /\ rg = NoBuilder
    /\ br = [st |-> "building", info_data |-> NoneV, calls |-> <<>>]

BridgeCanCall ==
    br # NoBuilder /\ br.st = "building" /\ Len(br.calls) < MaxBridgeCalls

\* info_data.get_or_insert_with(|| InfoData::Bridge(Vec::new()))
GetOrInsertBridge(info_data) ==
    IF info_data.some THEN info_data.val
    ELSE [kind |-> "Bridge", infos |-> <<>>]

\* The body of append_info_data: the push, when the data is Bridge data.
AppendInfoData(info_data, info) ==
    LET d == GetOrInsertBridge(info_data)
    IN  IF d.kind = "Bridge"
        THEN Some([d EXCEPT !.infos = Append(@, info)])
        ELSE Some(d)

\* The place of the first MultiBoolOpt entry of infos, 0 when none.
FirstMultiBoolOpt(infos) ==
    LET at == {i \in 1 .. Len(infos) : IsMultiBoolOpt(infos[i])}
    IN  IF at = {} THEN 0
        ELSE CHOOSE i \in at : \A j \in at : i <= j

\* BridgeBooleanOptionFlags::set(opt, value) on flags.
FlagsSet(flags, opt, value) ==
    IF value THEN flags \cup opt ELSE flags \ opt

\* A plausible slip: every call pushes an entry of its own.
SetBooleanOpt_AlwaysPush(info_data, opt, value) ==
    LET d == GetOrInsertBridge(info_data)
    IN  IF d.kind # "Bridge" THEN Some(d)
        ELSE Some([d EXCEPT !.infos =
                 Append(@, MultiBoolOpt(IF value THEN opt ELSE {}, opt))])

\* The body of set_boolean_opt: the first MultiBoolOpt entry is updated,
\* or one is pushed when there is none.
SetBooleanOpt(info_data, opt, value) ==
    LET d == GetOrInsertBridge(info_data)
        i == FirstMultiBoolOpt(d.infos)
    IN  IF d.kind # "Bridge" THEN Some(d)
        ELSE IF i # 0
        THEN Some([d EXCEPT !.infos[i].value =
                      [value |-> FlagsSet(@.value, opt, value),
                       mask |-> FlagsSet(@.mask, opt, TRUE)]])
        ELSE Some([d EXCEPT !.infos =
                 Append(@, MultiBoolOpt(IF value THEN opt ELSE {}, opt))])

\* LinkMessageBuilder<LinkBridge>::append_info_data.
append_info_data(info) ==
    /\ BridgeCanCall
    /\ br' = [br EXCEPT
                !.info_data = AppendInfoData(@, info),
                !.calls = Append(@, BridgeCall("append_info_data", {},
                                               FALSE, info))]
    /\ UNCHANGED notBr

\* LinkMessageBuilder<LinkBridge>::ageing_time, one of the setters that
\* are append_info_data of an entry of their own kind.
ageing_time(value) ==
    /\ BridgeCanCall
    /\ br' = [br EXCEPT
                !.info_data = AppendInfoData(@, Attr("AgeingTime", value)),
                !.calls = Append(@, BridgeCall("ageing_time", {}, FALSE,
                                               Attr("AgeingTime", value)))]
    /\ UNCHANGED notBr

\* LinkMessageBuilder<LinkBridge>::set_boolean_opt.
set_boolean_opt(opt, value) ==
    /\ BridgeCanCall
    /\ br' = [br EXCEPT
                !.info_data = SetBooleanOpt(@, opt, value),
                !.calls = Append(@, BridgeCall("set_boolean_opt", opt,
                                               value, NoInfo))]
    /\ UNCHANGED notBr

\* LinkMessageBuilder<LinkBridge>::mst_enabled, one of the setters that
\* are set_boolean_opt of their flag.
mst_enabled(value) ==
    /\ BridgeCanCall
    /\ br' = [br EXCEPT
                !.info_data = SetBooleanOpt(@, {"MstEnable"}, value),
                !.calls = Append(@, BridgeCall("mst_enabled",
                                               {"MstEnable"}, value,
                                               NoInfo))]
    /\ UNCHANGED notBr

\* LinkMessageBuilder<T>::set_info_data on the bridge builder.
BridgeSetInfoData(info_data) ==
    /\ BridgeCanCall
    /\ br' = [br EXCEPT
                !.info_data = Some(info_data),
                !.calls = Append(@, BridgeCall("set_info_data", {}, FALSE,
                                               NoInfo))]
    /\ UNCHANGED notBr

NextBridge ==
    \/ \E info \in BridgeInfoInputs : append_info_data(info)
    \/ \E value \in {300} : ageing_time(value)
    \/ \E opt \in BridgeOptInputs, value \in BOOLEAN :
           set_boolean_opt(opt, value)
    \/ \E value \in BOOLEAN : mst_enabled(value)
    \/ \E info_data \in InfoDataInputs : BridgeSetInfoData(info_data)

SpecBridge == InitBridge /\ [][NextBridge]_vars

\* ------------------------------------------------------------- C29
\* The places in the call log of the boolean-option setter calls.
BoolCalls ==
    {i \in 1 .. Len(br.calls) :
         br.calls[i].op \in {"set_boolean_opt", "mst_enabled"}}

\* The caller wrote info data of its own: set_info_data.
CalledSetInfoData ==
    \E i \in 1 .. Len(br.calls) : br.calls[i].op = "set_info_data"

\* The caller appended a MultiBoolOpt entry of its own.
AppendedMultiBoolOpt ==
    \E i \in 1 .. Len(br.calls) :
        /\ br.calls[i].op = "append_info_data"
        /\ IsMultiBoolOpt(br.calls[i].info)

\* The bridge info data holds one MultiBoolOpt entry; its mask is every
\* option passed, its value is within the mask, and each option's value
\* bit is the value of the last call that passed the option.
OneMultiBoolOpt ==
    /\ br.info_data.some /\ br.info_data.val.kind = "Bridge"
    /\ LET opts == SelectSeq(br.info_data.val.infos, IsMultiBoolOpt)
       IN  /\ Len(opts) = 1
           /\ opts[1].value.mask =
                  UNION {br.calls[i].opt : i \in BoolCalls}
           /\ opts[1].value.value \subseteq opts[1].value.mask
           /\ \A o \in opts[1].value.mask :
                  LET last == CHOOSE i \in BoolCalls :
                                  /\ o \in br.calls[i].opt
                                  /\ \A j \in BoolCalls :
                                         o \in br.calls[j].opt => j <= i
                  IN  o \in opts[1].value.value <=> br.calls[last].value

\* C29 as stated: boolean-option setter calls among any other setters of
\* the bridge builder, append_info_data with any entry included, leave
\* one MultiBoolOpt entry that sums the calls up.
C29_Original ==
    (br # NoBuilder /\ BoolCalls # {} /\ ~CalledSetInfoData) =>
        OneMultiBoolOpt

\* C29: boolean-option setter calls among the other setters of the bridge
\* builder, the caller appending no MultiBoolOpt entry and setting no
\* info data of its own, leave exactly one MultiBoolOpt entry; its mask
\* is the set of all options passed, its value is a subset of its mask,
\* and each option's value bit is the value of the last call for it.
C29_OneMultiBoolOpt ==
    (/\ br # NoBuilder /\ BoolCalls # {}
     /\ ~CalledSetInfoData /\ ~AppendedMultiBoolOpt) =>
        OneMultiBoolOpt

\* mst_enabled(true), then ageing_time, then both options cleared in one
\* call: the one entry, ahead of AgeingTime, has the mask of both options
\* and no value bit.
C29_Witness ==
    /\ br # NoBuilder
    /\ br.calls = <<BridgeCall("mst_enabled", {"MstEnable"}, TRUE, NoInfo),
                    BridgeCall("ageing_time", {}, FALSE,
                               Attr("AgeingTime", 300)),
                    BridgeCall("set_boolean_opt", BridgeOptions, FALSE,
                               NoInfo)>>
    /\ br.info_data.val.infos =
           <<MultiBoolOpt({}, BridgeOptions), Attr("AgeingTime", 300)>>

\* ---------------------------------------------------------------------
\* RouteGetRequest (route/get.rs): the request made by new(), typed by
\* v4() or v6(), narrowed by to(), from() and output_interface(), and
\* sent by execute() of the typed request.
\* ---------------------------------------------------------------------
\* Number of setter calls made on one request.
MaxGetCalls == 3
GetV4Inputs == {V4(10, 0, 0, 1), V4(192, 168, 1, 1)}
GetV6Inputs == {V6(8193, 1)}

notRg == <<connVars, ab, rb, gf, ns, ng, fl, lb, mc, tf, nh, br>>

GetCall(op, ip) == [op |-> op, ip |-> ip]

\* RouteGetRequest::new: both prefix lengths 0, no attribute, dump true.
InitRouteGet ==
    /\ ConnInit /\ ab = NoBuilder /\ rb = NoBuilder /\ gf = NoBuilder
    /\ ns = NoBuilder /\ ng = NoBuilder /\ fl = NoBuilder
    /\ lb = NoBuilder /\ mc = NoBuilder /\ tf = NoBuilder
    /\ nh = NoBuilder /\ br = NoBuilder
    /\ rg = [st |-> "building", ty |-> "()",
             message |-> [address_family |-> "Unspec",
                          destination_prefix_length |-> 0,
                          source_prefix_length |-> 0, nlas |-> <<>>],
             dump |-> TRUE, calls |-> <<>>, sent |-> NoneV]

GetCanCall ==
    rg # NoBuilder /\ rg.st = "building" /\ Len(rg.calls) < MaxGetCalls

\* RouteGetRequest<()>::v4 and v6.
RouteGetTyped(ty) ==
    /\ GetCanCall /\ rg.ty = "()"
    /\ rg' = [rg EXCEPT
                !.ty = ty,
                !.message.address_family =
                    IF ty = "Ipv4Addr" THEN "Inet" ELSE "Inet6",
                !.calls = Append(@, GetCall(ty, None))]
    /\ UNCHANGED notRg

\* RouteGetRequest<Ipv4Addr>::to and RouteGetRequest<Ipv6Addr>::to: both
\* write 32 into destination_prefix_length.
RouteGetTo(ip) ==
    /\ GetCanCall
    /\ \/ rg.ty = "Ipv4Addr" /\ ip.v = 4
       \/ rg.ty = "Ipv6Addr" /\ ip.v = 6
    /\ rg' = [rg EXCEPT
                !.message.nlas = Append(@, Attr("Destination", ip)),
                !.message.destination_prefix_length = 32,
                !.dump = FALSE,
                !.calls = Append(@, GetCall("to", ip))]
    /\ UNCHANGED notRg

\* from() of both typed requests: each takes an Ipv6Addr and writes 32
\* into source_prefix_length.
RouteGetFrom(ip) ==
    /\ GetCanCall /\ rg.ty # "()" /\ ip.v = 6
    /\ rg' = [rg EXCEPT
                !.message.nlas = Append(@, Attr("Source", ip)),
                !.message.source_prefix_length = 32,
                !.calls = Append(@, GetCall("from", ip))]
    /\ UNCHANGED notRg

\* RouteGetRequest::output_interface.
RouteGetOutputInterface(index) ==
    /\ GetCanCall
    /\ rg' = [rg EXCEPT
                !.message.nlas = Append(@, Attr("Oif", index)),
                !.calls = Append(@, GetCall("output_interface", None))]
    /\ UNCHANGED notRg

\* execute() of the typed requests: REQUEST | DUMP when dump, else
\* REQUEST.
RouteGetExecute ==
    /\ rg # NoBuilder /\ rg.st = "building" /\ rg.ty # "()"
    /\ rg' = [rg EXCEPT
                !.st = "sent",
                !.sent = Some([message |-> rg.message,
                               flags |-> IF rg.dump
                                         THEN {NLM_F_REQUEST, NLM_F_DUMP}
                                         ELSE {NLM_F_REQUEST}])]
    /\ UNCHANGED notRg

NextRouteGet ==
    \/ \E ty \in {"Ipv4Addr", "Ipv6Addr"} : RouteGetTyped(ty)
    \/ \E ip \in GetV4Inputs \cup GetV6Inputs : RouteGetTo(ip)
    \/ \E ip \in GetV6Inputs : RouteGetFrom(ip)
    \/ \E index \in {1, 2} : RouteGetOutputInterface(index)
    \/ RouteGetExecute

SpecRouteGet == InitRouteGet /\ [][NextRouteGet]_vars

\* ------------------------------------------------------------- C30
\* The places in the call log of the to() calls.
ToCalls == {i \in 1 .. Len(rg.calls) : rg.calls[i].op = "to"}

\* C30: a request on which to(ip) was called goes out with a Destination
\* attribute holding ip, with the header destination prefix length the
\* full length of the address, 32 for IPv4 and 128 for IPv6, and with
\* flags exactly REQUEST, without DUMP.
C30_ToBestRoute ==
    (rg # NoBuilder /\ rg.st = "sent" /\ ToCalls # {}) =>
        /\ \A i \in ToCalls :
               /\ \E k \in 1 .. Len(rg.sent.val.message.nlas) :
                      rg.sent.val.message.nlas[k] =
                          Attr("Destination", rg.calls[i].ip)
               /\ rg.sent.val.message.destination_prefix_length =
                      IF rg.calls[i].ip.v = 4 THEN Ipv4PrefixMax
                      ELSE Ipv6PrefixMax
        /\ rg.sent.val.flags = {NLM_F_REQUEST}

====
